---- MODULE Spec2Model ----
(***************************************************************************)
(* Model of the cryptobuddy signal engine.                                 *)
(*                                                                         *)
(* signal-engine.js starts one `node precision-heatmap-atr-OI-v2.js SYM`   *)
(* process per request.  Each process loads the module (which initialises  *)
(* the module-level smoothing variables), gathers its market data, runs    *)
(* computeConvictionAndSignal once, prints the result and exits.           *)
(*                                                                         *)
(* JavaScript numbers are modelled exactly: integers as integers, other    *)
(* quantities as rationals [n, d] in lowest terms with d > 0.              *)
(***************************************************************************)
EXTENDS Integers, Sequences, FiniteSets, TLC

VARIABLES
    pc,      \* pc[s]: position of the process evaluating symbol s
    in,      \* in[s]: the market data that process works on
    loc,     \* loc[s]: locals of runForSymbol (momentumObj and the arguments
             \*         it passes to computeConvictionAndSignal)
    res,     \* res[s]: locals / return value of computeConvictionAndSignal
    mem,     \* mem[s]: the module-level variables of that process
    out,     \* out[s]: the last tick reported for s (data, result, readings) and the
             \* last answer of the route for s (http)
    ticks,   \* ticks[s]: number of results reported for s so far
    started  \* number of processes started so far

vars == <<pc, in, loc, res, mem, out, ticks, started>>

(***************************************************************************)
(* Program constants                                                       *)
(***************************************************************************)
Symbols == {"BTC", "ETH", "SOL"}

DEAD_BAND_THRESHOLD == 12
MOMENTUM_CONFIRM_THRESHOLD == 55
TREND_PERSIST_TICKS == 2
\* SMOOTHING_ALPHA = 0.35, in hundredths
SMOOTHING_ALPHA_PCT == 35

(***************************************************************************)
(* Bounds of the model                                                     *)
(***************************************************************************)
\* processes started in one behaviour of Spec
MaxStarted == 3

(***************************************************************************)
(* Arithmetic helpers.  A JavaScript number that need not be an integer is *)
(* a rational [n |-> numerator, d |-> denominator] with d > 0, in lowest   *)
(* terms.                                                                  *)
(***************************************************************************)
Max(a, b) == IF a >= b THEN a ELSE b
Min(a, b) == IF a <= b THEN a ELSE b
Abs(a) == IF a >= 0 THEN a ELSE 0 - a

RECURSIVE GCD(_, _)
GCD(a, b) == IF b = 0 THEN a ELSE GCD(b, a % b)

Norm(n, d) ==
    LET g == GCD(Abs(n), d) IN [n |-> n \div g, d |-> d \div g]

R(k) == [n |-> k, d |-> 1]
Frac(n, d) == IF d > 0 THEN Norm(n, d) ELSE Norm(0 - n, 0 - d)
RAdd(x, y) ==
    LET g == GCD(x.d, y.d)
    IN  Norm(x.n * (y.d \div g) + y.n * (x.d \div g), (x.d \div g) * y.d)
RNeg(x) == [n |-> 0 - x.n, d |-> x.d]
RSub(x, y) == RAdd(x, RNeg(y))
RMul(x, y) ==
    LET g == GCD(Abs(x.n), y.d)
        h == GCD(Abs(y.n), x.d)
    IN  Norm((x.n \div g) * (y.n \div h), (x.d \div h) * (y.d \div g))
\* x / y for y # 0
RDiv(x, y) == Frac(x.n * y.d, x.d * y.n)
RLt(x, y) == x.n * y.d < y.n * x.d
RLe(x, y) == x.n * y.d <= y.n * x.d
RMax(x, y) == IF RLt(x, y) THEN y ELSE x
RMin(x, y) == IF RLt(y, x) THEN y ELSE x
RAbs(x) == [n |-> Abs(x.n), d |-> x.d]

\* Math.round(x): the nearest integer, halves towards +infinity
Round(x) == (2 * x.n + x.d) \div (2 * x.d)

\* variant: the rounding without the clamp
ClampScoreOpen(x) == Round(x)

\* Math.max(0, Math.min(100, Math.round(x)))
ClampScore(x) == Max(0, Min(100, Round(x)))

RECURSIVE SumRange(_, _, _)
SumRange(q, lo, hi) ==
    IF lo > hi THEN 0
    ELSE IF lo = hi THEN q[lo]
    ELSE LET mid == (lo + hi) \div 2
         IN  SumRange(q, lo, mid) + SumRange(q, mid + 1, hi)

\* arr.reduce((a, b) => a + b, 0) over a sequence of integers
SumSeq(q) == SumRange(q, 1, Len(q))

\* arr.slice(-k)
LastK(q, k) == IF Len(q) <= k THEN q ELSE SubSeq(q, Len(q) - k + 1, Len(q))

(***************************************************************************)
(* Candle series (fetchBinanceKlines).  A series is described by a shape   *)
(*   [n, up, down, flat, wick, vol]:                                       *)
(* n candles; in every block of up + down + flat candles the first `up`    *)
(* close one tick higher than they open, the next `down` one tick lower    *)
(* and the rest unchanged; each candle opens at the previous close, its    *)
(* high and low lie `wick` beyond its body and its volume is `vol`.  The   *)
(* last candle closes at LastClose.                                        *)
(***************************************************************************)
\* close of the last candle of every series
LastClose == 250

\* sum of the directions of candles 1..i of shape p
Drift(p, i) ==
    LET per  == p.up + p.down + p.flat
        full == i \div per
        r    == i % per
    IN  full * (p.up - p.down) + Min(r, p.up) - Max(0, Min(r - p.up, p.down))

CloseAt(p, i) == LastClose + Drift(p, i) - Drift(p, p.n)

Klines(p) ==
    [i \in 1..p.n |->
        LET o == CloseAt(p, i - 1)
            c == CloseAt(p, i)
        IN  [open |-> o, close |-> c,
             high |-> Max(o, c) + p.wick, low |-> Min(o, c) - p.wick,
             volume |-> p.vol]]

ATR_PERIOD == 14

\* computeATR: simple average of the last `period` true ranges
\* (series of the model have at least two candles, so trs is not empty)
computeATR(klines, period) ==
    LET trs == [i \in 1..(Len(klines) - 1) |->
                  LET k == klines[i + 1]
                      prevClose == klines[i].close
                  IN  Max(k.high - k.low,
                          Max(Abs(k.high - prevClose), Abs(k.low - prevClose)))]
        last == LastK(trs, period)
    IN  Frac(SumSeq(last), Len(last))

\* computeTalrAndSlope(klines).talr
computeTalr(klines) ==
    IF Len(klines) < 10 THEN 50
    ELSE LET steps == 2..Len(klines)
             down == Cardinality({i \in steps : klines[i].close - klines[i - 1].close < 0})
             up   == Cardinality({i \in steps : klines[i].close - klines[i - 1].close > 0})
             den  == IF up + down = 0 THEN 1 ELSE up + down
         IN  Round(Frac(down * 100, den))

\* variant: gains and losses averaged over every step of the series
computeRSIWhole(klines, period) ==
    IF Len(klines) < period + 1 THEN [isNull |-> TRUE, v |-> R(0)]
    ELSE LET diffs  == [i \in 1..(Len(klines) - 1) |->
                           klines[i + 1].close - klines[i].close]
             gain == SumSeq([i \in 1..Len(diffs) |-> Max(0, diffs[i])])
             loss == SumSeq([i \in 1..Len(diffs) |-> Max(0, 0 - diffs[i])])
         IN  IF loss = 0 /\ gain = 0 THEN [isNull |-> FALSE, v |-> R(50)]
             ELSE IF loss = 0 THEN [isNull |-> FALSE, v |-> R(100)]
             ELSE [isNull |-> FALSE, v |-> Frac(100 * gain, gain + loss)]

\* computeRSI: [isNull, v]; v is the RSI as a rational
computeRSI(klines, period) ==
    IF Len(klines) < period + 1 THEN [isNull |-> TRUE, v |-> R(0)]
    ELSE LET diffs  == [i \in 1..(Len(klines) - 1) |->
                           klines[i + 1].close - klines[i].close]
             gains  == [i \in 1..Len(diffs) |-> Max(0, diffs[i])]
             losses == [i \in 1..Len(diffs) |-> Max(0, 0 - diffs[i])]
             avgGain == Frac(SumSeq(LastK(gains, period)), period)
             avgLoss == Frac(SumSeq(LastK(losses, period)), period)
         IN  IF avgLoss.n = 0 /\ avgGain.n = 0 THEN [isNull |-> FALSE, v |-> R(50)]
             ELSE IF avgLoss.n = 0 THEN [isNull |-> FALSE, v |-> R(100)]
             ELSE LET rs  == RDiv(avgGain, avgLoss)
                      rsi == RSub(R(100), RDiv(R(100), RAdd(R(1), rs)))
                  IN  [isNull |-> FALSE, v |-> RMax(R(0), RMin(R(100), rsi))]

\* The MACD part of computeMomentumScore.  computeMACDHistogram's EMA
\* recurrences are real-valued; its results hist and avgAbsHist are taken
\* as data, macd = [hist, avgAbs] in units of 1e-8 (avgAbs >= 0).
MacdScore(macd) ==
    LET denom  == Max(Max(macd.avgAbs, Abs(macd.hist)), 1)
        scaled == RMax(R(-1), RMin(R(1), Frac(macd.hist, denom)))
    IN  Max(0, Min(100, Round(RAdd(R(50), RMul(scaled, R(25))))))

\* The moving-average part of computeMomentumScore (price is a rational)
MaScore(klines, price) ==
    LET closes == [i \in 1..Len(klines) |-> klines[i].close]
        ma50   == Frac(SumSeq(LastK(closes, 50)), 50)
        ma200  == Frac(SumSeq(LastK(closes, 200)), 200)
    IN  IF Len(closes) >= 200
        THEN LET base == IF RLt(ma200, ma50) THEN 70 ELSE 30
                 hi   == IF RLt(ma50, price) /\ RLt(ma200, price)
                         THEN Min(95, base + 10) ELSE base
             IN  IF RLt(price, ma50) /\ RLt(price, ma200)
                 THEN Max(5, hi - 10) ELSE hi
        ELSE IF Len(closes) >= 50
        THEN (IF RLt(ma50, price) THEN 60 ELSE 40)
        ELSE 50

computeMomentumScore(klines, price, macd) ==
    IF Len(klines) < 50
    THEN [available |-> FALSE, rsiScore |-> R(50), macdScore |-> 50,
          maScore |-> 50, momentumScore |-> 50]
    ELSE LET rsi       == computeRSI(klines, 14)
             rsiScore  == IF rsi.isNull THEN R(50) ELSE rsi.v
             macdScore == MacdScore(macd)
             maScore   == MaScore(klines, price)
             momentumScore ==
                 Round(RAdd(RMul(rsiScore, Frac(40, 100)),
                            RAdd(RMul(R(macdScore), Frac(35, 100)),
                                 RMul(R(maScore), Frac(25, 100)))))
         IN  [available |-> TRUE, rsiScore |-> rsiScore, macdScore |-> macdScore,
              maScore |-> maScore,
              momentumScore |-> Max(0, Min(100, momentumScore))]

\* computeCVD(klines, lookback)
computeCVD(klines, lookback) ==
    IF Len(klines) < 2 THEN [available |-> FALSE, cvd |-> 0, cvdScore |-> 50]
    ELSE LET slice == LastK(klines, lookback)
             delta(k) == IF k.close > k.open THEN k.volume
                         ELSE IF k.close < k.open THEN 0 - k.volume ELSE 0
             deltas == [i \in 1..Len(slice) |-> delta(slice[i])]
             totalVol == SumSeq([i \in 1..Len(slice) |-> slice[i].volume])
             cvdFirst == deltas[1]
             cvdLast == SumSeq(deltas)
             cvdChange == cvdLast - cvdFirst
             denom == IF totalVol = 0 THEN 1 ELSE totalVol
             norm == Frac(cvdChange, denom)
             clipped == RMax(R(-1), RMin(R(1), RMul(norm, R(10))))
             cvdScore == Round(RAdd(R(50), RMul(clipped, R(50))))
         IN  [available |-> TRUE, cvd |-> cvdLast,
              cvdScore |-> Max(0, Min(100, cvdScore))]

(***************************************************************************)
(* Order-book stages.  A raw level is [price, size]; an aggregated level   *)
(* is [price, usd]; a cluster is [low, high, usd, count] with rational     *)
(* bounds.  Lists are sequences in the order the arrays hold them.         *)
(***************************************************************************)
CLUSTER_MULTIPLIER_PCT == 50
COVERAGE_PCT == 90
MIN_STRENGTH_PCT == 3
DIST_MULTIPLIER == 6
LIQ_THRESHOLD_PCT == 10
LIQ_MAX_LOOKUP_PCT == 50

\* the sort keys the program uses: b.usd - a.usd, a.price - b.price and
\* b.price - a.price
Key(x, key) ==
    IF key = "usd" THEN x.usd ELSE IF key = "price" THEN x.price ELSE 0 - x.price

RECURSIVE SortDesc(_, _, _)
\* the elements q[1..i] in non-increasing order of Key, equal keys in the
\* order of q (Array.prototype.sort is stable)
SortDesc(q, key, i) ==
    IF i = 0 THEN <<>>
    ELSE LET rest == SortDesc(q, key, i - 1)
             x    == q[i]
             keep == Cardinality({j \in 1..Len(rest) : Key(rest[j], key) >= Key(x, key)})
         IN  SubSeq(rest, 1, keep) \o <<x>> \o SubSeq(rest, keep + 1, Len(rest))

RECURSIVE aggregateFrom(_, _)
\* the Map of aggregatePriceUsd after levels[1..i], as a list in insertion order
aggregateFrom(levels, i) ==
    IF i = 0 THEN <<>>
    ELSE LET acc == aggregateFrom(levels, i - 1)
             lvl == levels[i]
             usd == lvl.price * lvl.size
             at  == {j \in 1..Len(acc) : acc[j].price = lvl.price}
         IN  IF ~lvl.finite \/ lvl.size <= 0 THEN acc
             ELSE IF at = {} THEN Append(acc, [price |-> lvl.price, usd |-> usd])
             ELSE [j \in 1..Len(acc) |->
                     IF j \in at THEN [price |-> acc[j].price, usd |-> acc[j].usd + usd]
                     ELSE acc[j]]

aggregatePriceUsd(levels) == aggregateFrom(levels, Len(levels))

\* Math.floor(price / clusterSize) for a rational clusterSize > 0
ClusterIdx(price, clusterSize) == (price * clusterSize.d) \div clusterSize.n

RECURSIVE binsFrom(_, _, _)
\* the Map of clusterBySize after arr[1..i], as a list in insertion order
binsFrom(arr, clusterSize, i) ==
    IF i = 0 THEN <<>>
    ELSE LET acc  == binsFrom(arr, clusterSize, i - 1)
             idx  == ClusterIdx(arr[i].price, clusterSize)
             low  == RMul(R(idx), clusterSize)
             high == RMul(R(idx + 1), clusterSize)
             at   == {j \in 1..Len(acc) : acc[j].low = low /\ acc[j].high = high}
         IN  IF at = {}
             THEN Append(acc, [low |-> low, high |-> high, usd |-> arr[i].usd, count |-> 1])
             ELSE [j \in 1..Len(acc) |->
                     IF j \in at
                     THEN [low |-> low, high |-> high, usd |-> acc[j].usd + arr[i].usd,
                           count |-> acc[j].count + 1]
                     ELSE acc[j]]

\* variant: the buckets in the order of their first level, without the sort
clusterBySizeUnsorted(arr, clusterSize) ==
    binsFrom(arr, clusterSize, Len(arr))

clusterBySize(arr, clusterSize) ==
    LET bins == binsFrom(arr, clusterSize, Len(arr))
    IN  SortDesc(bins, "usd", Len(bins))

Mid(c) == RDiv(RAdd(c.low, c.high), R(2))

applyModerateFilter(clusters, strongestUsd, atr, price) ==
    LET minUsd  == Frac(strongestUsd * MIN_STRENGTH_PCT, 100)
        maxDist == RMul(atr, R(DIST_MULTIPLIER))
        keep(c) == RLe(minUsd, R(c.usd)) /\ RLe(RAbs(RSub(Mid(c), price)), maxDist)
    IN  SelectSeq(clusters, keep)

SumUsd(q) == SumSeq([i \in 1..Len(q) |-> q[i].usd])

\* variant: the loop going on until the target is exceeded (> for >=)
extractPOIStrict(clusters, coveragePct) ==
    LET total  == SumUsd(clusters)
        target == Frac(total * coveragePct, 100)
        stops  == {i \in 1..Len(clusters) :
                     RLt(target, R(SumUsd(SubSeq(clusters, 1, i))))}
        last   == IF stops = {} THEN Len(clusters)
                  ELSE CHOOSE i \in stops : \A j \in stops : i <= j
    IN  [total |-> total, target |-> target, poi |-> SubSeq(clusters, 1, last)]

\* variant: every cluster admitted, the target not looked at
extractPOIAll(clusters, coveragePct) ==
    LET total == SumUsd(clusters)
    IN  [total |-> total, target |-> Frac(total * coveragePct, 100), poi |-> clusters]

\* variant: the target taken as the share left uncovered
extractPOIComplement(clusters, coveragePct) ==
    LET total  == SumUsd(clusters)
        target == Frac(total * (100 - coveragePct), 100)
        stops  == {i \in 1..Len(clusters) :
                     RLe(target, R(SumUsd(SubSeq(clusters, 1, i))))}
        last   == IF stops = {} THEN Len(clusters)
                  ELSE CHOOSE i \in stops : \A j \in stops : i <= j
    IN  [total |-> total, target |-> target, poi |-> SubSeq(clusters, 1, last)]

\* extractPOI(clusters, coverage): the loop pushes a cluster, adds its usd
\* and breaks once cumulative >= target
extractPOI(clusters, coveragePct) ==
    LET total  == SumUsd(clusters)
        target == Frac(total * coveragePct, 100)
        reached(i) == RLe(target, R(SumUsd(SubSeq(clusters, 1, i))))
        stops  == {i \in 1..Len(clusters) : reached(i)}
        last   == IF stops = {} THEN Len(clusters)
                  ELSE CHOOSE i \in stops : \A j \in stops : i <= j
    IN  [total |-> total, target |-> target, poi |-> SubSeq(clusters, 1, last)]

buildCumulativeLadder(sideArr) ==
    SortDesc(sideArr, "-price", Len(sideArr))

NoZone == [found |-> FALSE, price |-> 0, accum |-> 0, dist |-> R(0), thresholdHit |-> R(0)]

\* variant: a walk that does not look at the reach
LiquidationWalkNoReach(walk, currentPrice, maxReach, target) ==
    LET dist(i) == RAbs(RSub(currentPrice, R(walk[i].price)))
        cum(i)  == SumUsd(SubSeq(walk, 1, i))
        hits    == {i \in 1..Len(walk) : RLe(target, R(cum(i)))}
    IN  IF hits = {} THEN NoZone
        ELSE LET i == CHOOSE h \in hits : \A j \in hits : h <= j
             IN  [found |-> TRUE, price |-> walk[i].price, accum |-> cum(i),
                  dist |-> dist(i), thresholdHit |-> target]

\* one walk of findNearestLiquidationPriceSide over the levels `walk`
\* (nearest first): the first level within reach whose running total
\* reaches `target`
LiquidationWalk(walk, currentPrice, maxReach, target) ==
    LET dist(i) == RAbs(RSub(currentPrice, R(walk[i].price)))
        cum(i)  == SumUsd(SubSeq(walk, 1, i))
        hits    == {i \in 1..Len(walk) : RLe(dist(i), maxReach) /\ RLe(target, R(cum(i)))}
    IN  IF hits = {} THEN NoZone
        ELSE LET i == CHOOSE h \in hits : \A j \in hits : h <= j
             IN  [found |-> TRUE, price |-> walk[i].price, accum |-> cum(i),
                  dist |-> dist(i), thresholdHit |-> target]

\* variant: the levels of the side walked from the farthest inwards
SideLevelsFarFirst(ladderAsc, currentPrice, side) ==
    LET below == SelectSeq(ladderAsc, LAMBDA p : RLt(R(p.price), currentPrice))
        above == LET f == SelectSeq(ladderAsc, LAMBDA p : RLt(currentPrice, R(p.price)))
                 IN  SortDesc(f, "price", Len(f))
    IN  IF side = "bid" THEN below ELSE above

\* the levels findNearestLiquidationPriceSide walks: those strictly below
\* (bid) or strictly above (ask) the current price, nearest first
SideLevels(ladderAsc, currentPrice, side) ==
    LET below == LET f == SelectSeq(ladderAsc, LAMBDA p : RLt(R(p.price), currentPrice))
                 IN  SortDesc(f, "price", Len(f))
        above == LET f == SelectSeq(ladderAsc, LAMBDA p : RLt(currentPrice, R(p.price)))
                 IN  SortDesc(f, "-price", Len(f))
    IN  IF side = "bid" THEN below ELSE above

\* variant: a second walk that does not look at the reach
findNearestLiquidationPriceSideFarSecond(ladderAsc, currentPrice, side, sideTotal, atr) ==
    LET maxReach == RMul(atr, R(DIST_MULTIPLIER))
        target1  == Frac(sideTotal * LIQ_THRESHOLD_PCT, 100)
        target2  == Frac(sideTotal * LIQ_MAX_LOOKUP_PCT, 100)
        walk     == SideLevels(ladderAsc, currentPrice, side)
        first    == LiquidationWalk(walk, currentPrice, maxReach, target1)
    IN  IF first.found THEN first
        ELSE LiquidationWalkNoReach(walk, currentPrice, maxReach, target2)

findNearestLiquidationPriceSide(ladderAsc, currentPrice, side, sideTotal, atr) ==
    LET maxReach == RMul(atr, R(DIST_MULTIPLIER))
        target1  == Frac(sideTotal * LIQ_THRESHOLD_PCT, 100)
        target2  == Frac(sideTotal * LIQ_MAX_LOOKUP_PCT, 100)
        walk     == SideLevels(ladderAsc, currentPrice, side)
        first    == LiquidationWalk(walk, currentPrice, maxReach, target1)
    IN  IF first.found THEN first
        ELSE LiquidationWalk(walk, currentPrice, maxReach, target2)

NoPain == [found |-> FALSE, price |-> 0, accum |-> 0]

topClusterAsPain(clusters) ==
    IF clusters = <<>> THEN NoPain
    ELSE LET top == SortDesc(clusters, "usd", Len(clusters))[1]
         IN  [found |-> TRUE, price |-> Round(Mid(top)), accum |-> top.usd]

\* computeLCI(bidsArr, asksArr, price, atr)
computeLCI(bidsArr, asksArr, price, atr) ==
    LET all    == bidsArr \o asksArr
        sum    == SumUsd(all)
        total  == IF sum = 0 THEN 1 ELSE sum
        radius == IF atr.n = 0 THEN R(1) ELSE atr
        minP   == RSub(price, radius)
        maxP   == RAdd(price, radius)
        within == SumUsd(SelectSeq(all,
                     LAMBDA l : RLe(minP, R(l.price)) /\ RLe(R(l.price), maxP)))
        lci    == Frac(within, total)
    IN  [lci |-> lci,
         lciScore |-> Round(RMax(R(0), RMin(R(100), RMul(lci, R(100)))))]

\* computeMELA(binClusters, cbClusters, clusterSize)
computeMELA(binClusters, cbClusters, clusterSize) ==
    LET near(b, c) == RLe(RAbs(RSub(Mid(b), Mid(c))), RMax(clusterSize, R(1)))
        overlaps == Cardinality({i \in 1..Len(binClusters) :
                        \E j \in 1..Len(cbClusters) : near(binClusters[i], cbClusters[j])})
        denom == Max(1, Max(Len(binClusters), Len(cbClusters)))
        mela  == Frac(overlaps, denom)
    IN  [mela |-> mela, melaScore |-> Round(RMul(mela, R(100))), available |-> TRUE]

(***************************************************************************)
(* Futures metrics, as fetchBinanceFuturesMetrics delivers them:           *)
(*   success : the object's success flag                                   *)
(*   oiExp   : openInterestUSD + 1 = 10^oiExp (0: absent or zero)          *)
(*   fr5     : fundingRate in units of 1e-5 (0: absent, null or zero)      *)
(*   hasLS   : typeof longShortRatio === "number"                          *)
(*   ls1000  : longShortRatio in thousandths (read only when hasLS)        *)
(***************************************************************************)
\* Math.min(30, Math.round(Math.log10(oiUSD + 1) * 3)), 0 without success
FuturesStrength(fm) ==
    IF fm.success THEN Min(30, Round(R(3 * fm.oiExp))) ELSE 0

\* frBias: (fundingRate || 0) * 1000
FrBias(fm) == RMul(Frac(fm.fr5, 100000), R(1000))

\* lsBias: ((longShortRatio || 1) - 1) * 10
LsBias(fm) ==
    LET ls == IF fm.hasLS /\ fm.ls1000 # 0 THEN Frac(fm.ls1000, 1000) ELSE R(1)
    IN  RMul(RSub(ls, R(1)), R(10))

FuturesBias(fm) ==
    IF fm.success
    THEN RMul(RSub(LsBias(fm), FrBias(fm)), Frac(FuturesStrength(fm), 20))
    ELSE R(0)

\* variant: a longShortRatio that is not there read as the number 0
CacProxyCoerced(fm) ==
    LET ls1000 == IF fm.hasLS THEN fm.ls1000 ELSE 0
    IN  RMul(RSub(Frac(ls1000, 1000), R(1)), R(100))

\* cacProxy of runForSymbol (and the default of computeConvictionAndSignal)
CacProxy(fm) ==
    IF fm.hasLS THEN RMul(RSub(Frac(fm.ls1000, 1000), R(1)), R(100)) ELSE R(0)

(***************************************************************************)
(* Regime heuristic                                                        *)
(***************************************************************************)
\* variant: the second rule firing from 0.08 on (>= for >)
computeRegimeLoose(atr, price, lci, momentumScore) ==
    LET volPct  == RDiv(atr, RMax(price, R(1)))
        liqConc == lci
    IN  IF RLt(Frac(6, 100), liqConc) /\ RLt(Frac(1, 100), volPct) THEN "LIQUIDITY_STRESSED"
        ELSE IF RLe(Frac(8, 100), liqConc) THEN "LIQUIDITY_STRESSED"
        ELSE IF momentumScore < 45 /\ RLt(Frac(4, 100), liqConc) THEN "LIQUIDITY_STRESSED"
        ELSE "NORMAL"

computeRegime(atr, price, lci, momentumScore) ==
    LET volPct  == RDiv(atr, RMax(price, R(1)))
        liqConc == lci
    IN  IF RLt(Frac(6, 100), liqConc) /\ RLt(Frac(1, 100), volPct) THEN "LIQUIDITY_STRESSED"
        ELSE IF RLt(Frac(8, 100), liqConc) THEN "LIQUIDITY_STRESSED"
        ELSE IF momentumScore < 45 /\ RLt(Frac(4, 100), liqConc) THEN "LIQUIDITY_STRESSED"
        ELSE "NORMAL"

\* liqConc of computeRegime: lciObj.lci when lciObj is there and its lci is
\* a number, 0 otherwise
LiqConc(lciObj) ==
    IF lciObj.present /\ lciObj.numeric THEN lciObj.lci ELSE R(0)

\* computeRegime on the argument object p = [atr, price, lciObj, momentumObj],
\* either object possibly missing.  Without a momentumObj the third rule
\* cannot fire, as with any momentumScore of 45 or more.
computeRegimeOf(p) ==
    computeRegime(p.atr, p.price, LiqConc(p.lciObj),
                  IF p.momentumObj.present THEN p.momentumObj.momentumScore ELSE 45)

(***************************************************************************)
(* Conviction engine.  `a` is the argument object of                       *)
(* computeConvictionAndSignal: buyPct, sellPct, talr, nearestSupportDistPct,*)
(* nearestResistanceDistPct, bidTotal, askTotal, futuresMetrics,           *)
(* momentumScore, cvdScore, lciScore, melaScore, cacModifier, regime.      *)
(***************************************************************************)
CVD_BIAS_MAX == 8
LCI_BIAS_MAX == 5
MELA_BIAS_MAX == 5
\* MOMENTUM_BIAS_MAX = 7.5, in tenths
MOMENTUM_BIAS_MAX_TENTHS == 75
REGIME_CVD_THRESHOLD == 40
REGIME_CAC_THRESHOLD == -1
SUPPRESSION_BUY_SCORE_CAP == 55
PROXIMITY_INFLUENCE_MAX == 10

\* cvdBias + lciBias + melaBias
FlowBias(a) ==
    LET cvdBias  == RMul(Frac(a.cvdScore - 50, 50), R(CVD_BIAS_MAX))
        lciSigned == IF RLe(a.sellPct, a.buyPct) THEN a.lciScore - 50 ELSE 50 - a.lciScore
        lciBias  == RMul(Frac(lciSigned, 50), R(LCI_BIAS_MAX))
        melaSigned == IF RLe(a.sellPct, a.buyPct) THEN a.melaScore - 50 ELSE 50 - a.melaScore
        melaBias == RMul(Frac(melaSigned, 50), R(MELA_BIAS_MAX))
    IN  RAdd(cvdBias, RAdd(lciBias, melaBias))

\* lines 646-712: buyScoreRaw and sellScoreRaw once every bias is added,
\* before Math.round and the clamp
RawScores(a) ==
    LET dominanceBias == RSub(a.buyPct, a.sellPct)
        talrBias == Frac(50 - a.talr, 2)
        proxBuy  == RMax(R(0), RSub(R(40), a.nearestSupportDistPct))
        proxSell == RMax(R(0), RSub(R(40), a.nearestResistanceDistPct))
        bidMass  == a.bidTotal
        askMass  == IF a.askTotal = 0 THEN 1 ELSE a.askTotal
        massBias == RMul(Frac(bidMass - askMass, bidMass + askMass), R(20))
        futuresBias == FuturesBias(a.futuresMetrics)
        momentumBias == RMul(Frac(a.momentumScore - 50, 50), Frac(MOMENTUM_BIAS_MAX_TENTHS, 10))
        proxFactor == RMax(R(0 - PROXIMITY_INFLUENCE_MAX),
                           RMin(R(PROXIMITY_INFLUENCE_MAX),
                                RDiv(RSub(R(40), a.nearestSupportDistPct), R(4))))
        cacPenalty == RMul(a.cacModifier, Frac(2, 10))
        base == RAdd(RMul(dominanceBias, Frac(35, 100)),
                RAdd(RMul(talrBias, Frac(1, 2)),
                RAdd(RMul(massBias, Frac(4, 10)),
                RAdd(futuresBias, momentumBias))))
        extra == RAdd(FlowBias(a), RAdd(proxFactor, cacPenalty))
    IN  [buy  |-> RAdd(RAdd(R(50), RAdd(base, RMul(proxBuy, Frac(1, 2)))), extra),
         sell |-> RSub(RAdd(RSub(R(50), base), RMul(proxSell, Frac(1, 2))), extra)]

\* lines 714-715: buyScore and sellScore as they stand after the first clamp
PreScores(raw) ==
    [buyScore  |-> ClampScore(raw.buy),
     sellScore |-> ClampScore(raw.sell)]

\* variant: the rule firing on any negative cacModifier
SuppressionFiresAnyNegative(a) ==
    /\ a.regime \in {"LIQUIDITY_STRESSED", "STRESSED"}
    /\ a.cvdScore < REGIME_CVD_THRESHOLD
    /\ RLt(a.cacModifier, R(0))

\* the condition of the flow-aware suppression rule (line 722)
SuppressionFires(a) ==
    /\ a.regime \in {"LIQUIDITY_STRESSED", "STRESSED"}
    /\ a.cvdScore < REGIME_CVD_THRESHOLD
    /\ RLt(a.cacModifier, R(REGIME_CAC_THRESHOLD))

\* Math.max(15, Math.round((REGIME_CVD_THRESHOLD - cvdScore) / 5))
SuppressionAmount(cvdScore) ==
    Max(15, Round(Frac(REGIME_CVD_THRESHOLD - cvdScore, 5)))

\* variant: the strong suppression whatever the buyScore
SuppressStrongOnly(pre, a) ==
    LET suppressionAmount == SuppressionAmount(a.cvdScore)
        after ==
          IF SuppressionFires(a)
          THEN [buyScore |-> Max(0, pre.buyScore - suppressionAmount),
                sellScore |-> Min(100, pre.sellScore + Round(Frac(suppressionAmount, 2)))]
          ELSE pre
    IN  [buyScore |-> ClampScore(R(after.buyScore)),
         sellScore |-> ClampScore(R(after.sellScore))]

\* variant: a buyScore at or above the cap left as it is
SuppressBelowCapOnly(pre, a) ==
    LET after ==
          IF SuppressionFires(a) /\ pre.buyScore < SUPPRESSION_BUY_SCORE_CAP
          THEN LET suppressionAmount == SuppressionAmount(a.cvdScore)
               IN  [buyScore |-> Max(0, pre.buyScore - suppressionAmount),
                    sellScore |-> Min(100, pre.sellScore
                                           + Round(Frac(suppressionAmount, 2)))]
          ELSE pre
    IN  [buyScore |-> ClampScore(R(after.buyScore)),
         sellScore |-> ClampScore(R(after.sellScore))]

\* lines 722-738: the scores after the suppression rule and the second clamp
Suppress(pre, a) ==
    LET after ==
          IF SuppressionFires(a)
          THEN IF pre.buyScore < SUPPRESSION_BUY_SCORE_CAP
               THEN LET suppressionAmount == SuppressionAmount(a.cvdScore)
                    IN  [buyScore |-> Max(0, pre.buyScore - suppressionAmount),
                         sellScore |-> Min(100, pre.sellScore
                                                + Round(Frac(suppressionAmount, 2)))]
               ELSE [buyScore |-> Max(0, pre.buyScore - 8),
                     sellScore |-> Min(100, pre.sellScore + 4)]
          ELSE pre
    IN  [buyScore |-> ClampScore(R(after.buyScore)),
         sellScore |-> ClampScore(R(after.sellScore))]

\* variant: the lead of 8 points taken as sufficient (>= for >)
DecideSignalLoose(buyScore, sellScore) ==
    IF buyScore >= sellScore + 8 /\ buyScore >= 60
    THEN [signal |-> "BUY", conviction |-> Max(buyScore, sellScore)]
    ELSE IF sellScore >= buyScore + 8 /\ sellScore >= 60
    THEN [signal |-> "SELL", conviction |-> Max(buyScore, sellScore)]
    ELSE [signal |-> "HOLD", conviction |-> Round(Frac(buyScore + sellScore, 2))]

\* lines 740-748: the signal and conviction for the final scores
DecideSignal(buyScore, sellScore) ==
    IF buyScore > sellScore + 8 /\ buyScore >= 60
    THEN [signal |-> "BUY", conviction |-> Max(buyScore, sellScore)]
    ELSE IF sellScore > buyScore + 8 /\ sellScore >= 60
    THEN [signal |-> "SELL", conviction |-> Max(buyScore, sellScore)]
    ELSE [signal |-> "HOLD", conviction |-> Round(Frac(buyScore + sellScore, 2))]

(***************************************************************************)
(* Helpers of runForSymbol.  The fetched data is d = [book, k, macd, fm]:  *)
(*   book : [binBids, binAsks, cbBids, cbAsks], raw levels                 *)
(*   k    : shape of the 4h candle series                                  *)
(*   macd : results of computeMACDHistogram on that series                 *)
(*   fm   : futures metrics                                                *)
(***************************************************************************)
\* a || b || c || 0 over prices, where a and b are the first raw entry of a
\* book side and c the first aggregated level
FirstPrice(q) == IF q = <<>> THEN 0 ELSE q[1].price
OrElse(a, b) == IF a # 0 THEN a ELSE b

MarketPrice(book, bidsArr, asksArr) ==
    LET bestBid == OrElse(FirstPrice(book.binBids),
                          OrElse(FirstPrice(book.binAsks), FirstPrice(bidsArr)))
        bestAsk == OrElse(FirstPrice(book.binAsks),
                          OrElse(FirstPrice(book.binBids), FirstPrice(asksArr)))
    IN  IF bestBid # 0 /\ bestAsk # 0 THEN Frac(bestBid + bestAsk, 2)
        ELSE R(OrElse(FirstPrice(bidsArr), FirstPrice(asksArr)))

\* nearestSupportDistPct / nearestResistanceDistPct
DistPct(zone, pain, price, atr) ==
    LET found == zone.found \/ pain.found
        dist  == IF zone.found THEN zone.dist ELSE RAbs(RSub(price, R(pain.price)))
    IN  IF found /\ atr.n # 0
        THEN RMul(RDiv(dist, RMul(atr, R(DIST_MULTIPLIER))), R(100))
        ELSE R(999)

StrongestUsd(clusters) == IF clusters = <<>> THEN 0 ELSE clusters[1].usd

\* x || 50
OrFifty(x) == IF x # 0 THEN x ELSE 50

(***************************************************************************)
(* Market data of the model                                                *)
(***************************************************************************)
\* one [price, size] entry of a depth response; finite is FALSE when Number()
\* of the price or of the size is not a finite number
L(p, z) == [price |-> p, size |-> z, finite |-> TRUE]

\* An order book around a mid price of 250.  b = [nb, mb, na, ma, far, cb]:
\* sizes of the near and middle bid and ask levels on Binance, of a far bid
\* level, and the distance of Coinbase's levels from Binance's near levels.
\* An entry of size 0 is the invalid raw entry aggregatePriceUsd drops.
Book(b) ==
    [binBids |-> <<L(240, b.nb), L(220, b.mb), L(50, b.far)>>,
     binAsks |-> <<L(260, b.na), L(280, b.ma)>>,
     cbBids  |-> <<L(240 - b.cb, 1)>>,
     cbAsks  |-> <<L(260 + b.cb, 1)>>]

\* the book of an exchange outage: no level on either side
EmptyBook == [binBids |-> <<>>, binAsks |-> <<>>, cbBids |-> <<>>, cbAsks |-> <<>>]

\* a book with bids only: it has a price but no ask cluster
BidsOnlyBook == [binBids |-> <<L(240, 1)>>, binAsks |-> <<>>, cbBids |-> <<>>, cbAsks |-> <<>>]

\* candle shapes
KChop  == [n |-> 200, up |-> 1,  down |-> 1,  flat |-> 0, wick |-> 5, vol |-> 1]
KSlide == [n |-> 200, up |-> 47, down |-> 53, flat |-> 1, wick |-> 5, vol |-> 1]
KRally == [n |-> 200, up |-> 1,  down |-> 0,  flat |-> 0, wick |-> 5, vol |-> 1]
KDrop  == [n |-> 200, up |-> 0,  down |-> 1,  flat |-> 0, wick |-> 5, vol |-> 1]
KShort == [n |-> 9,   up |-> 1,  down |-> 1,  flat |-> 0, wick |-> 5, vol |-> 1]
\* series of the secondary timeframes
KQuiet == [n |-> 30,  up |-> 1,  down |-> 1,  flat |-> 0, wick |-> 2, vol |-> 1]
KWild  == [n |-> 30,  up |-> 1,  down |-> 1,  flat |-> 0, wick |-> 9, vol |-> 1]

\* futures metrics with the given long/short ratio (in thousandths)
Futures(ls1000) ==
    [success |-> TRUE, oiExp |-> 9, fr5 |-> 10, hasLS |-> TRUE, ls1000 |-> ls1000]

\* fetchBinanceFuturesMetrics after a failed request
NoFutures == [success |-> FALSE, oiExp |-> 0, fr5 |-> 0, hasLS |-> FALSE, ls1000 |-> 0]

\* metrics with one request failed: no fundingRate, no longShortRatio, no
\* open interest
NoFunding == [Futures(980) EXCEPT !.fr5 = 0]
NoRatio == [Futures(980) EXCEPT !.hasLS = FALSE, !.ls1000 = 0]
NoOpenInterest == [Futures(980) EXCEPT !.oiExp = 0]

\* what safeFetchKlines returns for a secondary timeframe: a series, or null
\* when the request failed
Fetched(k) == [ok |-> TRUE, k |-> k]
FetchFailed == [ok |-> FALSE, k |-> KShort]

\* the 5m, 15m and 1h series all fetched
AllFetched == [k5m |-> Fetched(KQuiet), k15m |-> Fetched(KQuiet), k1h |-> Fetched(KQuiet)]

FlatMacd == [hist |-> 0, avgAbs |-> 0]

Data(book, k, fm) ==
    [book |-> book, k |-> k, macd |-> FlatMacd, fm |-> fm, sec |-> AllFetched]

\* the data d with other answers to the 5m, 15m and 1h requests
WithSecondary(d, sec) == [d EXCEPT !.sec = sec]

\* what the tick is decided on: the books, the 4h series and the futures
Primary(d) == [book |-> d.book, k |-> d.k, macd |-> d.macd, fm |-> d.fm]

(***************************************************************************)
(* Locals and results of one process                                       *)
(***************************************************************************)
NoArgs ==
    [buyPct |-> R(50), sellPct |-> R(50), talr |-> 50,
     nearestSupportDistPct |-> R(999), nearestResistanceDistPct |-> R(999),
     bidTotal |-> 0, askTotal |-> 0, futuresMetrics |-> NoFutures,
     momentumScore |-> 50, cvdScore |-> 50, lciScore |-> 50, melaScore |-> 50,
     cacModifier |-> R(0), regime |-> "NORMAL"]

NoLocals ==
    [momentumObj |-> [available |-> FALSE, rsiScore |-> R(50), macdScore |-> 50,
                      maScore |-> 50, momentumScore |-> 50],
     args |-> NoArgs, bidClusters |-> <<>>, askClusters |-> <<>>,
     clusterSize |-> R(1),
     bidClustersBin |-> <<>>, bidClustersCb |-> <<>>,
     askClustersBin |-> <<>>, askClustersCb |-> <<>>,
     bidMela |-> [mela |-> R(0), melaScore |-> 50, available |-> FALSE],
     askMela |-> [mela |-> R(0), melaScore |-> 50, available |-> FALSE]]

\* what a process has to report before computeConvictionAndSignal has run
NoResult ==
    [rsiScore |-> R(50), macdScore |-> 50, maScore |-> 50,
     momentumScore |-> 50, cvdScore |-> 50, lciScore |-> 50, melaScore |-> 50,
     cacModifier |-> R(0), regime |-> "NORMAL",
     raw |-> [buy |-> R(50), sell |-> R(50)],
     pre |-> [buyScore |-> 50, sellScore |-> 50],
     buyScore |-> 50, sellScore |-> 50, signal |-> "NONE", conviction |-> 0]

\* the scores of the process with locals l, once computeConvictionAndSignal
\* has reached line 738: raw, pre (first clamp) and fin (after suppression)
Scored(l, raw, pre, fin) ==
    [rsiScore |-> l.momentumObj.rsiScore,
     macdScore |-> l.momentumObj.macdScore,
     maScore |-> l.momentumObj.maScore,
     momentumScore |-> l.args.momentumScore,
     cvdScore |-> l.args.cvdScore, lciScore |-> l.args.lciScore,
     melaScore |-> l.args.melaScore,
     cacModifier |-> l.args.cacModifier, regime |-> l.args.regime,
     raw |-> raw, pre |-> pre,
     buyScore |-> fin.buyScore, sellScore |-> fin.sellScore,
     signal |-> "NONE", conviction |-> 0]

(***************************************************************************)
(* Module-level smoothing state (lines 56-59), as a fresh process has it   *)
(***************************************************************************)
ModuleState ==
    [lastSignal |-> "HOLD", lastBuyScore |-> 50, lastSellScore |-> 50,
     trendConsistencyCounter |-> 0]

\* variant: one smoothing state shared by all evaluations, updated on return
WriteStateShared(m, s, r) ==
    [t \in DOMAIN m |-> [m[t] EXCEPT !.lastSignal = r.signal,
                                     !.lastBuyScore = r.buyScore,
                                     !.lastSellScore = r.sellScore]]

\* variant: the evaluation recording its result in its own process's state
WriteStateOwn(m, s, r) ==
    [m EXCEPT ![s] = [lastSignal |-> r.signal, lastBuyScore |-> r.buyScore,
                      lastSellScore |-> r.sellScore,
                      trendConsistencyCounter |-> m[s].trendConsistencyCounter + 1]]

\* The module-level state of all processes, m, after computeConvictionAndSignal
\* has run in the process of symbol s with result r: the function assigns to
\* none of lastSignal, lastBuyScore, lastSellScore, trendConsistencyCounter.
WriteState(m, s, r) == m

(***************************************************************************)
(* Processes                                                               *)
(***************************************************************************)
NoData == Data(EmptyBook, KShort, NoFutures)

\* Lines 1130-1144: atr_X and vol_X of one secondary timeframe.  `available`
\* is atr_X !== null, `vol` is vol_X !== null (the series has a return); the
\* magnitude of vol_X is not represented.
TimeframeReading(f) ==
    IF f.ok
    THEN [available |-> TRUE, atr |-> computeATR(Klines(f.k), ATR_PERIOD),
          vol |-> f.k.n >= 2]
    ELSE [available |-> FALSE, atr |-> R(0), vol |-> FALSE]

SecondaryReadings(sec) ==
    [m5 |-> TimeframeReading(sec.k5m), m15 |-> TimeframeReading(sec.k15m),
     h1 |-> TimeframeReading(sec.k1h)]

NoReadings ==
    SecondaryReadings([k5m |-> FetchFailed, k15m |-> FetchFailed, k1h |-> FetchFailed])

\* variant: a tick without a 1h reading downgraded to HOLD
PrintedResultNeeds1h(convObj, readings) ==
    IF readings.h1.available THEN convObj ELSE [convObj EXCEPT !.signal = "HOLD"]

\* line 1164: the result the process prints once the secondary block is
\* through, convObj as computeConvictionAndSignal returned it
PrintedResult(convObj, readings) == convObj

\* variant: the route answering 200 whatever generateSignalTOON did
RouteAnswerAlwaysOk(rejected) == [status |-> 200, error |-> FALSE]

\* POST /signal-simple: res.json(...) when generateSignalTOON resolved,
\* res.status(500).json({ error }) from the catch when it rejected
RouteAnswer(rejected) ==
    IF rejected THEN [status |-> 500, error |-> TRUE]
    ELSE [status |-> 200, error |-> FALSE]

\* no request answered yet
NoReply == [status |-> 0, error |-> FALSE]

\* out[s] before the first tick of s
NoOutput ==
    [data |-> NoData, result |-> NoResult, readings |-> NoReadings, http |-> NoReply]

\* market data of the ticks of the interleaved system
TickInputs ==
    { Data(Book([nb |-> 4, mb |-> 2, na |-> 4, ma |-> 2, far |-> 300, cb |-> 20]),
           KChop, Futures(980)),
      WithSecondary(
          Data(Book([nb |-> 1, mb |-> 0, na |-> 4, ma |-> 2, far |-> 0, cb |-> 0]),
               KChop, Futures(980)),
          [AllFetched EXCEPT !.k1h = FetchFailed]),
      NoData }

\* signal-engine.js runPrecision: exec of a new node process for symbol s
Spawn(s) ==
    /\ pc[s] = "idle"
    /\ started < MaxStarted
    /\ \E d \in TickInputs : in' = [in EXCEPT ![s] = d]
    /\ pc' = [pc EXCEPT ![s] = "running"]
    /\ mem' = [mem EXCEPT ![s] = ModuleState]
    /\ started' = started + 1
    /\ UNCHANGED <<loc, res, out, ticks>>

\* process.exit(1) of runForSymbol
Exit(s) ==
    /\ pc' = [pc EXCEPT ![s] = "failed"]
    /\ UNCHANGED loc

\* runForSymbol from the fetches to the arguments of
\* computeConvictionAndSignal (lines 858-1003); each \E binds one const of
\* the function.  The process exits when it has no price or no clusters.
Gather(s) ==
    /\ pc[s] = "running"
    /\ \E book \in {in[s].book}, klines \in {Klines(in[s].k)} :
       \E bidsArrBin \in {aggregatePriceUsd(book.binBids)},
          asksArrBin \in {aggregatePriceUsd(book.binAsks)},
          bidsArrCb  \in {aggregatePriceUsd(book.cbBids)},
          asksArrCb  \in {aggregatePriceUsd(book.cbAsks)},
          bidsArr    \in {aggregatePriceUsd(book.binBids \o book.cbBids)},
          asksArr    \in {aggregatePriceUsd(book.binAsks \o book.cbAsks)},
          atr        \in {computeATR(klines, ATR_PERIOD)} :
       \E clusterSize \in {RMax(R(1), RMul(atr, Frac(CLUSTER_MULTIPLIER_PCT, 100)))},
          price       \in {MarketPrice(book, bidsArr, asksArr)} :
       IF price.n = 0 THEN Exit(s)
       ELSE
       \E fm \in {in[s].fm},
          bidClusters0 \in {clusterBySize(bidsArr, clusterSize)},
          askClusters0 \in {clusterBySize(asksArr, clusterSize)},
          bidClustersBin0 \in {clusterBySize(bidsArrBin, clusterSize)},
          askClustersBin0 \in {clusterBySize(asksArrBin, clusterSize)},
          bidClustersCb0 \in {clusterBySize(bidsArrCb, clusterSize)},
          askClustersCb0 \in {clusterBySize(asksArrCb, clusterSize)} :
       IF bidClusters0 = <<>> \/ askClusters0 = <<>> THEN Exit(s)
       ELSE
       \E bidClusters \in {applyModerateFilter(bidClusters0, StrongestUsd(bidClusters0), atr, price)},
          askClusters \in {applyModerateFilter(askClusters0, StrongestUsd(askClusters0), atr, price)},
          bidClustersBin \in {applyModerateFilter(bidClustersBin0, StrongestUsd(bidClustersBin0), atr, price)},
          askClustersBin \in {applyModerateFilter(askClustersBin0, StrongestUsd(askClustersBin0), atr, price)},
          bidClustersCb \in {applyModerateFilter(bidClustersCb0, StrongestUsd(bidClustersCb0), atr, price)},
          askClustersCb \in {applyModerateFilter(askClustersCb0, StrongestUsd(askClustersCb0), atr, price)} :
       \E bidPOI \in {extractPOI(bidClusters, COVERAGE_PCT)},
          askPOI \in {extractPOI(askClusters, COVERAGE_PCT)} :
       \E totalBid \in {bidPOI.total}, totalAsk \in {askPOI.total} :
       \E buyPct  \in {IF totalBid + totalAsk = 0 THEN R(50)
                       ELSE Frac(totalBid * 100, totalBid + totalAsk)},
          sellPct \in {IF totalBid + totalAsk = 0 THEN R(50)
                       ELSE Frac(totalAsk * 100, totalBid + totalAsk)},
          talr        \in {computeTalr(klines)},
          momentumObj \in {computeMomentumScore(klines, price, in[s].macd)},
          cvdObj      \in {computeCVD(klines, 200)},
          lciObj      \in {computeLCI(bidsArr, asksArr, price, atr)},
          bidMela     \in {computeMELA(bidClustersBin, bidClustersCb, clusterSize)},
          askMela     \in {computeMELA(askClustersBin, askClustersCb, clusterSize)},
          bidLadderAsc \in {buildCumulativeLadder(bidsArr)},
          askLadderAsc \in {buildCumulativeLadder(asksArr)} :
       \E melaScore \in {Round(RMax(R(0), RMin(R(100),
                            Frac(OrFifty(bidMela.melaScore)
                                 + OrFifty(askMela.melaScore), 2))))},
          nearestSupportObj \in
              {findNearestLiquidationPriceSide(bidLadderAsc, price, "bid", totalBid, atr)},
          nearestResistanceObj \in
              {findNearestLiquidationPriceSide(askLadderAsc, price, "ask", totalAsk, atr)},
          maxPainDown \in {topClusterAsPain(bidClusters)},
          maxPainUp \in {topClusterAsPain(askClusters)},
          regime \in {computeRegime(atr, price, lciObj.lci, momentumObj.momentumScore)} :
          /\ loc' = [loc EXCEPT ![s] =
                 [momentumObj |-> momentumObj,
                  bidClusters |-> bidClusters, askClusters |-> askClusters,
                  clusterSize |-> clusterSize,
                  bidClustersBin |-> bidClustersBin, bidClustersCb |-> bidClustersCb,
                  askClustersBin |-> askClustersBin, askClustersCb |-> askClustersCb,
                  bidMela |-> bidMela, askMela |-> askMela,
                  args |-> [buyPct |-> buyPct, sellPct |-> sellPct, talr |-> talr,
                            nearestSupportDistPct |->
                                DistPct(nearestSupportObj, maxPainDown, price, atr),
                            nearestResistanceDistPct |->
                                DistPct(nearestResistanceObj, maxPainUp, price, atr),
                            bidTotal |-> totalBid, askTotal |-> totalAsk,
                            futuresMetrics |-> fm,
                            momentumScore |-> momentumObj.momentumScore,
                            cvdScore |-> cvdObj.cvdScore,
                            lciScore |-> lciObj.lciScore,
                            melaScore |-> melaScore,
                            cacModifier |-> CacProxy(fm),
                            regime |-> regime]]]
          /\ pc' = [pc EXCEPT ![s] = "gathered"]
    /\ UNCHANGED <<in, res, mem, out, ticks, started>>

\* computeConvictionAndSignal up to the re-clamp (lines 643-738)
Score(s) ==
    /\ pc[s] = "gathered"
    /\ \E a \in {loc[s].args} :
       \E raw \in {RawScores(a)} :
       \E pre \in {PreScores(raw)} :
       \E fin \in {Suppress(pre, a)} :
          res' = [res EXCEPT ![s] = Scored(loc[s], raw, pre, fin)]
    /\ pc' = [pc EXCEPT ![s] = "scored"]
    /\ UNCHANGED <<in, loc, mem, out, ticks, started>>

\* lines 740-751: the decision and the return of computeConvictionAndSignal
Decide(s) ==
    /\ pc[s] = "scored"
    /\ LET dec == DecideSignal(res[s].buyScore, res[s].sellScore)
           r   == [res[s] EXCEPT !.signal = dec.signal, !.conviction = dec.conviction]
       IN  /\ res' = [res EXCEPT ![s] = r]
           /\ mem' = WriteState(mem, s, r)
    /\ pc' = [pc EXCEPT ![s] = "decided"]
    /\ UNCHANGED <<in, loc, out, ticks, started>>

\* lines 1005-1171: the process prints, fetches the secondary timeframes,
\* prints their readings and its result, and exits; runPrecision resolves and
\* the route answers
Report(s) ==
    /\ pc[s] = "decided"
    /\ \E readings \in {SecondaryReadings(in[s].sec)} :
          out' = [out EXCEPT ![s] =
                    [data |-> in[s], result |-> PrintedResult(res[s], readings),
                     readings |-> readings, http |-> RouteAnswer(FALSE)]]
    /\ ticks' = [ticks EXCEPT ![s] = @ + 1]
    /\ pc' = [pc EXCEPT ![s] = "idle"]
    /\ UNCHANGED <<in, loc, res, mem, started>>

\* the process exited with status 1; runPrecision rejects, generateSignalTOON
\* throws and the route answers from its catch
Reject(s) ==
    /\ pc[s] = "failed"
    /\ pc' = [pc EXCEPT ![s] = "idle"]
    /\ out' = [out EXCEPT ![s].http = RouteAnswer(TRUE)]
    /\ UNCHANGED <<in, loc, res, mem, ticks, started>>

Init ==
    /\ pc = [s \in Symbols |-> "idle"]
    /\ in = [s \in Symbols |-> NoData]
    /\ loc = [s \in Symbols |-> NoLocals]
    /\ res = [s \in Symbols |-> NoResult]
    /\ mem = [s \in Symbols |-> ModuleState]
    /\ out = [s \in Symbols |-> NoOutput]
    /\ ticks = [s \in Symbols |-> 0]
    /\ started = 0

Next ==
    \E s \in Symbols :
        \/ Spawn(s)
        \/ Gather(s)
        \/ Score(s)
        \/ Decide(s)
        \/ Report(s)
        \/ Reject(s)

Spec == Init /\ [][Next]_vars

(***************************************************************************)
(* One evaluation over a wide range of market data: a single process that  *)
(* has just been started on any of EngineInputs.                           *)
(***************************************************************************)
Books ==
    { Book([nb |-> nb, mb |-> mb, na |-> na, ma |-> ma, far |-> far, cb |-> cb]) :
        nb \in {1, 4}, mb \in {0, 2}, na \in {1, 4}, ma \in {0, 2},
        far \in {0, 300}, cb \in {0, 20} }
    \cup {EmptyBook, BidsOnlyBook}

Shapes == {KChop, KSlide, KRally, KDrop, KShort}

FuturesCases ==
    {Futures(980), Futures(990), Futures(995), Futures(1020), NoFutures,
     NoFunding, NoRatio, NoOpenInterest}

EngineInputs == { Data(b, k, fm) : b \in Books, k \in Shapes, fm \in FuturesCases }

InitEngine ==
    /\ pc = [s \in Symbols |-> IF s = "BTC" THEN "running" ELSE "idle"]
    /\ \E d \in EngineInputs : in = [s \in Symbols |-> IF s = "BTC" THEN d ELSE NoData]
    /\ loc = [s \in Symbols |-> NoLocals]
    /\ res = [s \in Symbols |-> NoResult]
    /\ mem = [s \in Symbols |-> ModuleState]
    /\ out = [s \in Symbols |-> NoOutput]
    /\ ticks = [s \in Symbols |-> 0]
    /\ started = 1

NextEngine ==
    \E s \in Symbols :
        \/ Gather(s)
        \/ Score(s)
        \/ Decide(s)
        \/ Report(s)
        \/ Reject(s)

SpecEngine == InitEngine /\ [][NextEngine]_vars

(***************************************************************************)
(* The decision alone: a process that has reached line 738 with any pair   *)
(* of final scores.                                                        *)
(***************************************************************************)
InitDecision ==
    /\ pc = [s \in Symbols |-> IF s = "BTC" THEN "scored" ELSE "idle"]
    /\ in = [s \in Symbols |-> NoData]
    /\ loc = [s \in Symbols |-> NoLocals]
    /\ \E b \in 0..100, c \in 0..100 :
          res = [s \in Symbols |->
                    IF s = "BTC" THEN [NoResult EXCEPT !.buyScore = b, !.sellScore = c]
                    ELSE NoResult]
    /\ mem = [s \in Symbols |-> ModuleState]
    /\ out = [s \in Symbols |-> NoOutput]
    /\ ticks = [s \in Symbols |-> 0]
    /\ started = 1

NextDecision ==
    \E s \in Symbols :
        \/ Decide(s)
        \/ Report(s)

SpecDecision == InitDecision /\ [][NextDecision]_vars

(***************************************************************************)
(* Calls of single functions.  The process of BTC stands at the call, in   *)
(* holds the arguments; the step makes the call and leaves what it         *)
(* returned in loc.                                                        *)
(***************************************************************************)
\* the state of every variable but pc, in and loc of a process at a call
AtCall(label, args) ==
    /\ pc = [s \in Symbols |-> IF s = "BTC" THEN label ELSE "idle"]
    /\ in = [s \in Symbols |-> IF s = "BTC" THEN args ELSE NoData]
    /\ loc = [s \in Symbols |-> NoLocals]
    /\ res = [s \in Symbols |-> NoResult]
    /\ mem = [s \in Symbols |-> ModuleState]
    /\ out = [s \in Symbols |-> NoOutput]
    /\ ticks = [s \in Symbols |-> 0]
    /\ started = 1

\* ---- extractPOI ----
MaxClusters == 3

\* notionals of the clusters handed to extractPOI
Notionals == {0, 1, 2, 5}

\* coverage values, in percent
Coverages == {0, 10, 50, 90, 100}

\* the i-th cluster of a list, with notional u
ClusterAt(i, u) == [low |-> R(10 * i), high |-> R(10 * i + 10), usd |-> u, count |-> 1]

ClusterLists ==
    UNION { { [i \in 1..n |-> ClusterAt(i, f[i])] : f \in [1..n -> Notionals] } :
            n \in 0..MaxClusters }

InitPOI ==
    \E q \in ClusterLists, c1 \in Coverages, c2 \in Coverages :
        /\ c1 <= c2
        /\ AtCall("extractPOI", [clusters |-> q, c1 |-> c1, c2 |-> c2])

\* extractPOI(clusters, c1) and extractPOI(clusters, c2)
ExtractPOI(s) ==
    /\ pc[s] = "extractPOI"
    /\ loc' = [loc EXCEPT ![s] = [lo |-> extractPOI(in[s].clusters, in[s].c1),
                                  hi |-> extractPOI(in[s].clusters, in[s].c2)]]
    /\ pc' = [pc EXCEPT ![s] = "extractPOI:returned"]
    /\ UNCHANGED <<in, res, mem, out, ticks, started>>

NextPOI == \E s \in Symbols : ExtractPOI(s)

SpecPOI == InitPOI /\ [][NextPOI]_vars

\* ---- findNearestLiquidationPriceSide ----
MaxLevels == 3

\* prices of the levels of a ladder, around a current price of 250
LadderPrices == {230, 240, 246, 250, 254, 260}

LevelNotionals == {0, 1, 3}

RECURSIVE LadderOf(_, _)
\* the levels of the prices ps with notionals f, by ascending price
LadderOf(ps, f) ==
    IF ps = {} THEN <<>>
    ELSE LET top == CHOOSE p \in ps : \A o \in ps : o <= p
         IN  Append(LadderOf(ps \ {top}, f), [price |-> top, usd |-> f[top]])

\* ladders as buildCumulativeLadder returns them for the output of
\* aggregatePriceUsd: one level per price, ascending
Ladders ==
    UNION { { LadderOf(ps, f) : f \in [ps -> LevelNotionals] } :
            ps \in {x \in SUBSET LadderPrices : Cardinality(x) <= MaxLevels} }

SideTotals == {0, 4, 10, 12, 40}

InitLocator ==
    \E ladder \in Ladders, side \in {"bid", "ask"}, sideTotal \in SideTotals,
       atr \in {R(1), R(2)} :
        AtCall("findNearestLiquidationPriceSide",
               [ladderAsc |-> ladder, currentPrice |-> R(250), side |-> side,
                sideTotal |-> sideTotal, atr |-> atr])

\* findNearestLiquidationPriceSide(in[s]); low and high are its two loops,
\* over LIQ_THRESHOLD_FRAC and LIQ_MAX_LOOKUP_FRAC
Locate(s) ==
    /\ pc[s] = "findNearestLiquidationPriceSide"
    /\ \E a \in {in[s]} :
       \E walk \in {SideLevels(a.ladderAsc, a.currentPrice, a.side)},
          maxReach \in {RMul(a.atr, R(DIST_MULTIPLIER))} :
          loc' = [loc EXCEPT ![s] =
                    [zone |-> findNearestLiquidationPriceSide(
                                  a.ladderAsc, a.currentPrice, a.side, a.sideTotal, a.atr),
                     low  |-> LiquidationWalk(walk, a.currentPrice, maxReach,
                                  Frac(a.sideTotal * LIQ_THRESHOLD_PCT, 100)),
                     high |-> LiquidationWalk(walk, a.currentPrice, maxReach,
                                  Frac(a.sideTotal * LIQ_MAX_LOOKUP_PCT, 100))]]
    /\ pc' = [pc EXCEPT ![s] = "findNearestLiquidationPriceSide:returned"]
    /\ UNCHANGED <<in, res, mem, out, ticks, started>>

NextLocator == \E s \in Symbols : Locate(s)

SpecLocator == InitLocator /\ [][NextLocator]_vars

\* ---- computeRegime ----
\* lciObj arguments: concentrations around the three thresholds, an lci that
\* is not a number, and no lciObj
LciObjs ==
    { [present |-> TRUE, numeric |-> TRUE, lci |-> Frac(c, 100)] :
        c \in {0, 3, 4, 5, 6, 7, 8, 9, 50} }
    \cup { [present |-> TRUE, numeric |-> FALSE, lci |-> R(0)],
           [present |-> FALSE, numeric |-> FALSE, lci |-> R(0)] }

MomentumObjs ==
    { [present |-> TRUE, momentumScore |-> m] : m \in {0, 44, 45, 70, 100} }
    \cup { [present |-> FALSE, momentumScore |-> 50] }

InitRegime ==
    \E atr \in {R(1), Frac(5, 2), R(3)}, price \in {R(1), R(250), R(300)},
       lciObj \in LciObjs, momentumObj \in MomentumObjs :
        AtCall("computeRegime",
               [atr |-> atr, price |-> price, lciObj |-> lciObj,
                momentumObj |-> momentumObj])

ComputeRegime(s) ==
    /\ pc[s] = "computeRegime"
    /\ loc' = [loc EXCEPT ![s] = [regime |-> computeRegimeOf(in[s])]]
    /\ pc' = [pc EXCEPT ![s] = "computeRegime:returned"]
    /\ UNCHANGED <<in, res, mem, out, ticks, started>>

NextRegime == \E s \in Symbols : ComputeRegime(s)

SpecRegime == InitRegime /\ [][NextRegime]_vars

(***************************************************************************)
(* Two evaluations of the same primary data with any answers to the        *)
(* secondary requests.                                                     *)
(***************************************************************************)
SecondaryCases ==
    { AllFetched,
      [k5m |-> Fetched(KWild), k15m |-> Fetched(KWild), k1h |-> Fetched(KWild)],
      [AllFetched EXCEPT !.k1h = FetchFailed],
      [k5m |-> FetchFailed, k15m |-> FetchFailed, k1h |-> FetchFailed] }

InitSecondary ==
    /\ pc = [s \in Symbols |-> IF s = "SOL" THEN "idle" ELSE "running"]
    /\ \E d \in TickInputs \ {NoData}, x \in SecondaryCases, y \in SecondaryCases :
          in = [s \in Symbols |-> IF s = "BTC" THEN WithSecondary(d, x)
                                  ELSE IF s = "ETH" THEN WithSecondary(d, y)
                                  ELSE NoData]
    /\ loc = [s \in Symbols |-> NoLocals]
    /\ res = [s \in Symbols |-> NoResult]
    /\ mem = [s \in Symbols |-> ModuleState]
    /\ out = [s \in Symbols |-> NoOutput]
    /\ ticks = [s \in Symbols |-> 0]
    /\ started = 2

NextSecondary ==
    \E s \in Symbols :
        \/ Gather(s)
        \/ Score(s)
        \/ Decide(s)
        \/ Report(s)

SpecSecondary == InitSecondary /\ [][NextSecondary]_vars

(***************************************************************************)
(* Properties                                                              *)
(***************************************************************************)
\* computeConvictionAndSignal has returned for s; res[s] is what it returned
Returned(s) == pc[s] = "decided"

\* computeConvictionAndSignal has passed the re-clamp of line 738 for s
PastScores(s) == pc[s] \in {"scored", "decided"}

\* a rational within 0..100
RInRange(x) == RLe(R(0), x) /\ RLe(x, R(100))

ClampedFrom(score, raw) ==
    IF RLt(R(100), raw) THEN score = 100
    ELSE IF RLt(raw, R(0)) THEN score = 0
    ELSE RLe(RAbs(RSub(R(score), raw)), Frac(1, 2))

C2_ScoresInRange ==
    \A s \in Symbols :
        /\ PastScores(s) =>
              /\ RInRange(res[s].rsiScore)
              /\ \A f \in {"macdScore", "maScore", "momentumScore", "cvdScore",
                           "lciScore", "melaScore", "buyScore", "sellScore"} :
                     res[s][f] \in 0..100
              /\ res[s].pre.buyScore \in 0..100
              /\ res[s].pre.sellScore \in 0..100
              /\ ClampedFrom(res[s].pre.buyScore, res[s].raw.buy)
              /\ ClampedFrom(res[s].pre.sellScore, res[s].raw.sell)
        /\ Returned(s) => res[s].conviction \in 0..100

\* an evaluation whose raw buyScore exceeded 100 and whose raw sellScore did
\* not: the clamp acted on one score only
C2_Witness ==
    \E s \in Symbols :
        /\ Returned(s)
        /\ RLt(R(100), res[s].raw.buy)
        /\ RInRange(res[s].raw.sell)
        /\ res[s].pre.buyScore = 100

Stressed(r, bound) ==
    /\ r.regime = "LIQUIDITY_STRESSED"
    /\ r.cvdScore < 40
    /\ RLt(r.cacModifier, bound)

\* the suppression rule fired (the final buyScore is below the clamped
\* pre-suppression one unless that was 0) exactly when `cond` holds, and left
\* both scores as they were otherwise
FiresExactlyWhen(r, cond) ==
    /\ cond => (r.buyScore < r.pre.buyScore \/ r.pre.buyScore = 0)
    /\ ~cond => (r.buyScore = r.pre.buyScore /\ r.sellScore = r.pre.sellScore)

C6_LargeScoreBranch ==
    \A s \in Symbols :
        (PastScores(s) /\ Stressed(res[s], R(-1)) /\ res[s].pre.buyScore >= 55)
            => /\ res[s].buyScore = res[s].pre.buyScore - 8
               /\ res[s].sellScore = Min(100, res[s].pre.sellScore + 4)
               /\ (res[s].cvdScore = 20 /\ res[s].cacModifier = R(-2)
                   /\ res[s].pre.buyScore = 65) => res[s].buyScore = 57

\* an evaluation in which the rule fired with cvdScore 20 and cacModifier -2
\* on a pre-suppression buyScore of 65
C6_Witness ==
    \E s \in Symbols :
        /\ PastScores(s)
        /\ Stressed(res[s], R(-1))
        /\ res[s].cvdScore = 20 /\ res[s].cacModifier = R(-2)
        /\ res[s].pre.buyScore = 65
        /\ res[s].buyScore = 57

\* C7: when the suppression rule fires and the pre-suppression buyScore is
\* below 55, buyScore is reduced (floored at 0) by a penalty that is at least
\* 15, that is not the same for all cvdScore in 0..39 and that a lower cvdScore
\* never makes smaller; sellScore is raised by half that penalty, rounded,
\* capped at 100.
C7_ScaledPenalty ==
    \A s \in Symbols :
        (PastScores(s) /\ Stressed(res[s], R(-1)) /\ res[s].pre.buyScore < 55)
            => LET penalty == SuppressionAmount(res[s].cvdScore)
               IN  /\ penalty >= 15
                   /\ res[s].buyScore = Max(0, res[s].pre.buyScore - penalty)
                   /\ res[s].sellScore =
                          Min(100, res[s].pre.sellScore + Round(Frac(penalty, 2)))
                   /\ \A c1, c2 \in 0..39 :
                          c1 <= c2 => SuppressionAmount(c1) >= SuppressionAmount(c2)
                   /\ \E c1, c2 \in 0..39 :
                          SuppressionAmount(c1) # SuppressionAmount(c2)

\* C8: in any interleaving of evaluations of different symbols, no
\* evaluation writes another's smoothing state (each process still has the
\* state it was loaded with), and the signal and conviction returned for a
\* symbol equal those any other evaluation reported for the same market data.
C8_Isolation ==
    \A s \in Symbols :
        /\ pc[s] # "idle" => mem[s] = ModuleState
        /\ Returned(s) =>
              \A t \in Symbols :
                  (ticks[t] >= 1 /\ out[t].data = in[s])
                      => /\ out[t].result.signal = res[s].signal
                         /\ out[t].result.conviction = res[s].conviction

\* the evaluation of s has returned while another symbol's evaluation, on
\* other market data, is under way, and a third symbol's earlier evaluation
\* reported on the market data of s
C8_Witness ==
    \E s, t, u \in Symbols :
        /\ s # t /\ s # u /\ t # u
        /\ Returned(s)
        /\ pc[t] \in {"gathered", "scored", "decided"}
        /\ in[t] # in[s]
        /\ ticks[u] >= 1 /\ out[u].data = in[s]

Blend(raw, prev) ==
    Round(Frac(SMOOTHING_ALPHA_PCT * raw + (100 - SMOOTHING_ALPHA_PCT) * prev, 100))

\* C10: on every tick after the first for a symbol, the emitted conviction
\* is the exponential blend (factor 0.35) of this tick's raw conviction and
\* the previous tick's emitted conviction.
C10_Smoothing ==
    \A s \in Symbols :
        (Returned(s) /\ ticks[s] >= 1)
            => res[s].conviction =
                   Blend(DecideSignal(res[s].buyScore, res[s].sellScore).conviction,
                         out[s].result.conviction)

(***************************************************************************)
(* extractPOI                                                              *)
(***************************************************************************)
\* extractPOI has returned in the process of s; loc[s] holds what it returned
\* for the coverages in[s].c1 (lo) and in[s].c2 (hi)
PoiReturned(s) == pc[s] = "extractPOI:returned"

IsPrefix(p, q) == Len(p) <= Len(q) /\ p = SubSeq(q, 1, Len(p))

\* the notional of the clusters of q at the positions S
SumAt(q, S) == SumSeq([i \in 1..Len(q) |-> IF i \in S THEN q[i].usd ELSE 0])

\* r is what C11 allows extractPOI to return for the clusters and coverage:
\* total and target as defined, a prefix of the list that reaches the target
\* with its last cluster and not before
CoversAtFirstReach(r, clusters, coveragePct) ==
    /\ r.total = SumUsd(clusters)
    /\ r.target = Frac(r.total * coveragePct, 100)
    /\ IsPrefix(r.poi, clusters)
    /\ clusters # <<>> => r.poi # <<>>
    /\ RLe(r.target, R(SumUsd(r.poi)))
    /\ \A k \in 1..(Len(r.poi) - 1) :
          RLt(R(SumUsd(SubSeq(clusters, 1, k))), r.target)

\* C11 (POI coverage): for every cluster list with non-negative notionals
\* and every coverage in [0,1], the clusters extractPOI returns have a
\* cumulative notional of at least coverage x total, total being the sum
\* over all input clusters; they are the clusters up to and including the
\* first one at which the running sum reaches the target (all of them when
\* only the last one reaches it).
C11_PoiCoverage ==
    \A s \in Symbols :
        PoiReturned(s) =>
            /\ CoversAtFirstReach(loc[s].lo, in[s].clusters, in[s].c1)
            /\ CoversAtFirstReach(loc[s].hi, in[s].clusters, in[s].c2)

\* extractPOI stopped after the second of three clusters, and went through
\* all three for the higher coverage
C11_Witness ==
    \E s \in Symbols :
        /\ PoiReturned(s)
        /\ Len(in[s].clusters) = 3
        /\ Len(loc[s].lo.poi) = 2
        /\ Len(loc[s].hi.poi) = 3

\* the list is in descending order of notional, as clusterBySize sorts it and
\* applyModerateFilter keeps it
SortedByUsd(q) == \A i \in 1..(Len(q) - 1) : q[i].usd >= q[i + 1].usd

\* r.poi is a minimal covering set of the clusters: a prefix of the list,
\* below the target without its last cluster, and no set of fewer clusters
\* reaches the target
MinimalCover(r, clusters) ==
    /\ IsPrefix(r.poi, clusters)
    /\ r.poi # <<>> =>
          RLt(R(SumUsd(SubSeq(r.poi, 1, Len(r.poi) - 1))), r.target)
    /\ \A S \in SUBSET (1..Len(clusters)) :
          Cardinality(S) < Len(r.poi) => RLt(R(SumAt(clusters, S)), r.target)

\* C12 (POI minimality), with the condition it needs: given clusters sorted
\* by descending notional and a positive target (coverage > 0 and a positive
\* total), the set extractPOI returns is a minimal covering set: a prefix of
\* the descending order, below the target once its last cluster is dropped,
\* and no set of fewer clusters reaches the target.
C12_PoiMinimalPositiveTarget ==
    \A s \in Symbols :
        (PoiReturned(s) /\ SortedByUsd(in[s].clusters)) =>
            /\ loc[s].lo.target.n > 0 => MinimalCover(loc[s].lo, in[s].clusters)
            /\ loc[s].hi.target.n > 0 => MinimalCover(loc[s].hi, in[s].clusters)

\* C12 as stated, for every target: given clusters sorted by descending
\* notional, the set extractPOI returns is a minimal covering set.
C12_PoiMinimal ==
    \A s \in Symbols :
        (PoiReturned(s) /\ SortedByUsd(in[s].clusters)) =>
            /\ MinimalCover(loc[s].lo, in[s].clusters)
            /\ MinimalCover(loc[s].hi, in[s].clusters)

\* a sorted list of three clusters of which extractPOI returned the first
\* two for a positive target: the largest cluster alone falls short
C12_Witness ==
    \E s \in Symbols :
        /\ PoiReturned(s)
        /\ SortedByUsd(in[s].clusters)
        /\ Len(in[s].clusters) = 3
        /\ loc[s].hi.target.n > 0
        /\ Len(loc[s].hi.poi) = 2
        /\ in[s].clusters[3].usd > 0

\* C13 (POI monotonicity): for a fixed cluster list and two coverage values
\* c1 <= c2, extractPOI with c1 returns no more clusters than with c2, and
\* what it returns for c1 is a prefix of what it returns for c2.
C13_PoiMonotone ==
    \A s \in Symbols :
        (PoiReturned(s) /\ in[s].c1 <= in[s].c2) =>
            /\ Len(loc[s].lo.poi) <= Len(loc[s].hi.poi)
            /\ IsPrefix(loc[s].lo.poi, loc[s].hi.poi)

\* the lower coverage stopped at the first cluster, the higher one went on
C13_Witness ==
    \E s \in Symbols :
        /\ PoiReturned(s)
        /\ in[s].c1 < in[s].c2
        /\ Len(loc[s].lo.poi) = 1
        /\ Len(loc[s].hi.poi) > 1

(***************************************************************************)
(* findNearestLiquidationPriceSide                                         *)
(***************************************************************************)
\* findNearestLiquidationPriceSide has returned in the process of s: loc[s].zone
\* is what it returned (found FALSE for null), loc[s].low and loc[s].high what
\* its two loops found
LocatorReturned(s) == pc[s] = "findNearestLiquidationPriceSide:returned"

\* for the arguments a of the locator: price p lies strictly on the side asked for
OnSide(a, p) ==
    IF a.side = "bid" THEN RLt(R(p), a.currentPrice) ELSE RLt(a.currentPrice, R(p))

DistOf(a, p) == RAbs(RSub(a.currentPrice, R(p)))

\* the notional of every level of the side between the current price and p, p included
AccumTo(a, p) ==
    SumUsd(SelectSeq(a.ladderAsc,
               LAMBDA l : OnSide(a, l.price) /\ RLe(DistOf(a, l.price), DistOf(a, p))))

\* the level at price p is within reach and at least 10% of sideTotal has
\* accumulated up to it
WithinReachAndFunded(a, p) ==
    /\ RLe(DistOf(a, p), RMul(a.atr, R(DIST_MULTIPLIER)))
    /\ RLe(Frac(a.sideTotal * 10, 100), R(AccumTo(a, p)))

\* C14 (liquidation locator result): whenever findNearestLiquidationPriceSide
\* returns a zone, the zone's price is strictly on the requested side of the
\* current price, its distance is at most atr x DIST_MULTIPLIER, its accum is
\* the sum of the notional of every level on that side between the current
\* price and the zone's price inclusive, accum is at least 10% of sideTotal,
\* and no level nearer to the current price is both within reach and funded
\* to 10% of sideTotal.
C14_LocatorResult ==
    \A s \in Symbols :
        (LocatorReturned(s) /\ loc[s].zone.found) =>
            LET a == in[s]
                z == loc[s].zone
            IN  /\ OnSide(a, z.price)
                /\ z.dist = DistOf(a, z.price)
                /\ RLe(z.dist, RMul(a.atr, R(DIST_MULTIPLIER)))
                /\ z.accum = AccumTo(a, z.price)
                /\ RLe(Frac(a.sideTotal * 10, 100), R(z.accum))
                /\ \A i \in 1..Len(a.ladderAsc) :
                      LET p == a.ladderAsc[i].price
                      IN  (OnSide(a, p) /\ RLt(DistOf(a, p), z.dist))
                              => ~WithinReachAndFunded(a, p)

\* a zone at the second level of the side: the nearest level is within reach
\* but holds less than 10% of sideTotal, and a level lies at the current price
C14_Witness ==
    \E s \in Symbols :
        /\ LocatorReturned(s)
        /\ loc[s].zone.found
        /\ in[s].sideTotal > 0
        /\ \E i, j \in 1..Len(in[s].ladderAsc) :
              /\ R(in[s].ladderAsc[i].price) = in[s].currentPrice
              /\ OnSide(in[s], in[s].ladderAsc[j].price)
              /\ RLt(DistOf(in[s], in[s].ladderAsc[j].price), loc[s].zone.dist)

\* C15 (liquidation locator monotonicity in the threshold): for a fixed
\* ladder, current price, ATR and sideTotal, if the walk returns a level for
\* the threshold fraction LIQ_MAX_LOOKUP_FRAC and also for the lower fraction
\* LIQ_THRESHOLD_FRAC, the level returned for the higher fraction is at a
\* distance from the current price greater than or equal to that of the
\* level returned for the lower one.
C15_LocatorMonotone ==
    \A s \in Symbols :
        (LocatorReturned(s) /\ loc[s].low.found /\ loc[s].high.found) =>
            /\ RLe(loc[s].low.thresholdHit, loc[s].high.thresholdHit)
            /\ RLe(loc[s].low.dist, loc[s].high.dist)

\* both walks return a level, the one for the higher fraction farther out
C15_Witness ==
    \E s \in Symbols :
        /\ LocatorReturned(s)
        /\ loc[s].low.found
        /\ loc[s].high.found
        /\ RLt(loc[s].low.thresholdHit, loc[s].high.thresholdHit)
        /\ RLt(loc[s].low.dist, loc[s].high.dist)

(***************************************************************************)
(* computeRegime                                                           *)
(***************************************************************************)
\* computeRegime has returned loc[s].regime for the arguments in[s]
RegimeReturned(s) == pc[s] = "computeRegime:returned"

\* the arguments a carry a concentration that is a number
HasConcentration(a) == a.lciObj.present /\ a.lciObj.numeric

\* the concentration C16 reads from the arguments: 0 when it is missing or
\* not a number
ConcentrationOf(a) == IF HasConcentration(a) THEN a.lciObj.lci ELSE R(0)

\* the condition of C16 on the arguments a
StressedByRule(a) ==
    LET conc == ConcentrationOf(a)
    IN  \/ RLt(Frac(6, 100), conc) /\ RLt(Frac(1, 100), RDiv(a.atr, a.price))
        \/ RLt(Frac(8, 100), conc)
        \/ /\ a.momentumObj.present
           /\ a.momentumObj.momentumScore < 45
           /\ RLt(Frac(4, 100), conc)

\* C16 (regime classification): computeRegime returns LIQUIDITY_STRESSED
\* exactly when (concentration > 0.06 and ATR/price > 0.01) or concentration
\* > 0.08 or (momentumScore < 45 and concentration > 0.04), and NORMAL
\* otherwise; so a concentration of 0.09 is stressed for every volatility
\* ratio and momentum score, a concentration of at most 0.04 is NORMAL, and
\* a missing or non-numeric concentration counts as 0 and gives NORMAL.
C16_RegimeClassification ==
    \A s \in Symbols :
        RegimeReturned(s) =>
            LET a == in[s]
                regime == loc[s].regime
            IN  /\ regime \in {"LIQUIDITY_STRESSED", "NORMAL"}
                /\ regime = "LIQUIDITY_STRESSED" <=> StressedByRule(a)
                /\ (HasConcentration(a) /\ a.lciObj.lci = Frac(9, 100))
                       => regime = "LIQUIDITY_STRESSED"
                /\ (HasConcentration(a) /\ RLe(a.lciObj.lci, Frac(4, 100)))
                       => regime = "NORMAL"
                /\ ~HasConcentration(a) => regime = "NORMAL"

\* a concentration of exactly 0.08 with a volatility ratio of exactly 0.01
\* and a momentum score of 45: on every threshold and still NORMAL
C16_Witness ==
    \E s \in Symbols :
        /\ RegimeReturned(s)
        /\ HasConcentration(in[s])
        /\ in[s].lciObj.lci = Frac(8, 100)
        /\ RDiv(in[s].atr, in[s].price) = Frac(1, 100)
        /\ in[s].momentumObj.present
        /\ in[s].momentumObj.momentumScore = 45
        /\ loc[s].regime = "NORMAL"

(***************************************************************************)
(* Fatal conditions of a tick                                              *)
(***************************************************************************)
\* the process of s has passed the two exits of runForSymbol (lines 891-894
\* and 910-913) and goes on, or went on, to computeConvictionAndSignal
Continues(s) == pc[s] \in {"gathered", "scored", "decided"}

\* C17 (empty clusters are fatal for the tick): if the bid-side or ask-side
\* cluster list is empty after the moderate filter has been applied,
\* runForSymbol aborts and emits no signal, conviction or scores; it never
\* goes on with a zero-total POI.
C17_EmptyClustersFatal ==
    \A s \in Symbols :
        Continues(s) =>
            /\ loc[s].bidClusters # <<>>
            /\ loc[s].askClusters # <<>>
            /\ loc[s].args.bidTotal > 0
            /\ loc[s].args.askTotal > 0

\* the price of runForSymbol (lines 887-889) on the data d evaluates to 0
NoPrice(d) ==
    MarketPrice(d.book, aggregatePriceUsd(d.book.binBids \o d.book.cbBids),
                aggregatePriceUsd(d.book.binAsks \o d.book.cbAsks)).n = 0

\* the step ends the process of s with a non-zero exit, nothing computed or
\* printed by it
ExitsEarly(s) ==
    /\ pc'[s] = "failed"
    /\ res'[s] = res[s]
    /\ out'[s] = out[s]
    /\ ticks'[s] = ticks[s]

\* the step answers the request for s with status 500 and an error body, the
\* last reported tick left as it was
AnswersError(s) ==
    /\ pc'[s] = "idle"
    /\ out'[s].http = [status |-> 500, error |-> TRUE]
    /\ out'[s].data = out[s].data
    /\ out'[s].result = out[s].result
    /\ ticks'[s] = ticks[s]

\* C18 (undeterminable price is fatal for the tick): when neither order book
\* yields a usable best bid or ask (the price evaluates to 0), runForSymbol
\* terminates with a non-zero exit before any conviction is computed or
\* printed, runPrecision rejects, and the HTTP route answers with a
\* structured error (status 500, {error}) instead of a signal.
C18_NoPriceFatal ==
    /\ [](\A s \in Symbols : Continues(s) => ~NoPrice(in[s]))
    /\ [][\A s \in Symbols :
            /\ (pc[s] = "running" /\ NoPrice(in[s]) /\ pc'[s] # "running")
                  => ExitsEarly(s)
            /\ (pc[s] = "failed" /\ pc'[s] # "failed") => AnswersError(s)]_vars

\* a symbol whose earlier tick was reported and whose next process found no
\* price: the route has answered 500
C18_Witness ==
    \E s \in Symbols :
        /\ pc[s] = "idle"
        /\ ticks[s] >= 1
        /\ NoPrice(in[s])
        /\ out[s].http = [status |-> 500, error |-> TRUE]
        /\ out[s].result.signal \in {"BUY", "SELL"}

(***************************************************************************)
(* Degraded inputs                                                         *)
(***************************************************************************)
\* a side of the combined book of d has no valid level, so no cluster
NoClusters(d) ==
    \/ aggregatePriceUsd(d.book.binBids \o d.book.cbBids) = <<>>
    \/ aggregatePriceUsd(d.book.binAsks \o d.book.cbAsks) = <<>>

DecisionOf(r) ==
    [signal |-> r.signal, conviction |-> r.conviction, buyScore |-> r.buyScore,
     sellScore |-> r.sellScore, regime |-> r.regime]

\* C20 (secondary timeframes cannot influence the decision): two runs of
\* runForSymbol that differ only in the 1h/15m/5m candle data, any of those
\* fetches failing included, produce the same signal, conviction, buyScore,
\* sellScore and regime; the conviction is computed from the 4h data before
\* the secondary fetches start (what the process prints after them is what
\* computeConvictionAndSignal returned), and a failed secondary fetch only
\* makes the reading of its timeframe N/A: the process does not abort and
\* the request is answered.
C20_SecondaryNoInfluence ==
    /\ [](\A s, t \in Symbols :
            (ticks[s] >= 1 /\ ticks[t] >= 1
               /\ Primary(out[s].data) = Primary(out[t].data))
                => DecisionOf(out[s].result) = DecisionOf(out[t].result))
    /\ [](\A s \in Symbols :
            /\ ~NoPrice(in[s]) /\ ~NoClusters(in[s]) => pc[s] # "failed"
            /\ ticks[s] >= 1 =>
                  /\ out[s].readings.m5.available = out[s].data.sec.k5m.ok
                  /\ out[s].readings.m15.available = out[s].data.sec.k15m.ok
                  /\ out[s].readings.h1.available = out[s].data.sec.k1h.ok
                  /\ out[s].http = [status |-> 200, error |-> FALSE])
    /\ [][\A s \in Symbols :
            (pc[s] = "decided" /\ pc'[s] # "decided")
                => /\ pc'[s] = "idle"
                   /\ res'[s] = res[s]
                   /\ out'[s].result = res[s]]_vars

\* two reported runs on the same primary data, one with every secondary
\* series fetched and one with the 1h fetch failed, both reporting BUY or SELL
C20_Witness ==
    \E s, t \in Symbols :
        /\ s # t
        /\ ticks[s] >= 1 /\ ticks[t] >= 1
        /\ Primary(out[s].data) = Primary(out[t].data)
        /\ out[s].data.sec.k1h.ok /\ ~out[t].data.sec.k1h.ok
        /\ out[s].readings.h1.available /\ ~out[t].readings.h1.available
        /\ out[s].readings.m5 # out[t].readings.m5
        /\ out[s].result.signal \in {"BUY", "SELL"}

(***************************************************************************)
(* Flow biases and the dominant side (lines 678-699)                       *)
(***************************************************************************)
\* the raw scores of the same evaluation with the flow score f at its
\* neutral value 50
RawScoresNeutral(a, f) == RawScores([a EXCEPT ![f] = 50])

\* the flow score f of the evaluation a, when above 50, moves the raw scores
\* toward the side that dominates a
SignedByDominance(a, raw, f) ==
    LET neutral == RawScoresNeutral(a, f)
        buyMove  == RSub(raw.buy, neutral.buy)
        sellMove == RSub(raw.sell, neutral.sell)
    IN  /\ (a[f] > 50 /\ RLe(a.sellPct, a.buyPct))
            => (buyMove.n > 0 /\ sellMove.n < 0)
        /\ (a[f] > 50 /\ RLt(a.buyPct, a.sellPct))
            => (buyMove.n < 0 /\ sellMove.n > 0)

\* C21: each of the three flow biases (CVD, LCI, MELA) is signed by the same
\* dominance direction: when buyPct >= sellPct a score above 50 raises
\* buyScore and lowers sellScore, and when sellPct > buyPct a score above 50
\* lowers buyScore and raises sellScore, for CVD exactly as for LCI and MELA.
C21_FlowBiasesFollowDominance ==
    \A s \in Symbols :
        PastScores(s) =>
            \A f \in {"cvdScore", "lciScore", "melaScore"} :
                SignedByDominance(loc[s].args, res[s].raw, f)

(***************************************************************************)
(* CVD over the lookback window (lines 548-568)                            *)
(***************************************************************************)
\* +volume for an up candle, -volume for a down candle, 0 for a flat one
SignedVolume(k) ==
    IF k.close > k.open THEN k.volume
    ELSE IF k.close < k.open THEN 0 - k.volume ELSE 0

\* round(50 + 50 x clip(10 x S / V, -1, 1)) clamped to 0..100, with S the
\* signed volume of every candle of the window and V its total volume
WindowCvdScore(klines, lookback) ==
    LET slice == LastK(klines, lookback)
        S == SumSeq([i \in 1..Len(slice) |-> SignedVolume(slice[i])])
        total == SumSeq([i \in 1..Len(slice) |-> slice[i].volume])
        V == IF total = 0 THEN 1 ELSE total
        clipped == RMax(R(-1), RMin(R(1), RMul(Frac(S, V), R(10))))
    IN  Max(0, Min(100, Round(RAdd(R(50), RMul(clipped, R(50))))))

\* C22: for a window of at least 2 candles, cvdScore = round(50 + 50 x
\* clip(10 x S / V, -1, 1)) clamped to 0..100, where S is the sum over every
\* candle of the lookback window, the first one included, of +volume for an
\* up candle, -volume for a down candle and 0 for a flat candle, and V is the
\* total volume of the window (1 if that total is 0); with fewer than 2
\* candles the result is the neutral 50.
C22_CvdScore ==
    \A s \in Symbols :
        Continues(s) =>
            LET klines == Klines(in[s].k)
            IN  loc[s].args.cvdScore =
                    (IF Len(klines) < 2 THEN 50 ELSE WindowCvdScore(klines, 200))

(***************************************************************************)
(* MELA per side and combined (lines 590-607, 944-952)                     *)
(***************************************************************************)
\* the number of clusters of A whose midpoint has a midpoint of B within one
\* cluster width
MatchedMidpoints(A, B, width) ==
    Cardinality({i \in 1..Len(A) :
        \E j \in 1..Len(B) : RLe(RAbs(RSub(Mid(A[i]), Mid(B[j]))), width)})

\* the side result m is the agreement ratio of A against B and its score
AgreementOf(m, A, B, width) ==
    /\ m.mela = Frac(MatchedMidpoints(A, B, width), Max(1, Max(Len(A), Len(B))))
    /\ RLe(R(0), m.mela) /\ RLe(m.mela, R(1))
    /\ m.melaScore = Round(RMul(m.mela, R(100)))

\* C23: for each side the agreement ratio is (number of exchange-A cluster
\* midpoints that have some exchange-B midpoint within one cluster width) /
\* max(|A|, |B|), always within [0,1], and its score is that ratio scaled to
\* 0..100; the combined melaScore is the rounded average of the bid-side and
\* ask-side scores for every pair of side scores, including a side score of 0.
C23_MelaCombined ==
    \A s \in Symbols :
        Continues(s) =>
            LET l == loc[s]
                width == RMax(l.clusterSize, R(1))
            IN  /\ AgreementOf(l.bidMela, l.bidClustersBin, l.bidClustersCb, width)
                /\ AgreementOf(l.askMela, l.askClustersBin, l.askClustersCb, width)
                /\ l.args.melaScore =
                       Round(Frac(l.bidMela.melaScore + l.askMela.melaScore, 2))

(***************************************************************************)
(* Calls of single functions: the depth merge and the clustering of        *)
(* runForSymbol (lines 870-885, 905-906), and computeTalrAndSlope followed  *)
(* by computeRSI (lines 936-939, 488)                                      *)
(***************************************************************************)
MaxEntries == 3
MaxOlder == 2

\* either a depth response of up to MaxEntries entries with the ATR of the
\* tick, or a candle series for computeTalrAndSlope and computeRSI: up to
\* MaxOlder older candles followed by the 15 candles of the trailing 14 periods
InitCalls ==
    \/ \E n \in 0..MaxEntries, atr \in {R(0), R(11)} :
       \E levels \in [1..n -> {L(p, z) : p \in {0, 240, 241, 250}, z \in {0, 1, 3}}
                              \cup {L(240, -1),
                                    [price |-> 240, size |-> 1, finite |-> FALSE]}] :
           AtCall("aggregatePriceUsd", [levels |-> levels, atr |-> atr])
    \/ \E n \in 0..MaxOlder, up \in 0..2, down \in 0..2, flat \in 0..1 :
       \E older \in [1..n -> {[open |-> c, close |-> c, high |-> c, low |-> c,
                                volume |-> 1] : c \in {240, 250, 260}}] :
           /\ up + down + flat > 0
           /\ AtCall("computeTalrAndSlope",
                     [klines |-> older \o Klines([n |-> ATR_PERIOD + 1, up |-> up,
                                                  down |-> down, flat |-> flat,
                                                  wick |-> 5, vol |-> 1])])

\* aggregatePriceUsd(levels)
AggregatePriceUsd(s) ==
    /\ pc[s] = "aggregatePriceUsd"
    /\ loc' = [loc EXCEPT ![s] = [arr |-> aggregatePriceUsd(in[s].levels)]]
    /\ pc' = [pc EXCEPT ![s] = "clusterBySize"]
    /\ UNCHANGED <<in, res, mem, out, ticks, started>>

\* clusterSize = Math.max(1, atr * CLUSTER_MULTIPLIER) and
\* clusterBySize(arr, clusterSize)
ClusterBySize(s) ==
    /\ pc[s] = "clusterBySize"
    /\ \E clusterSize \in {RMax(R(1), RMul(in[s].atr, Frac(CLUSTER_MULTIPLIER_PCT, 100)))} :
          loc' = [loc EXCEPT ![s] = [arr |-> loc[s].arr,
                                     clusterSize |-> clusterSize,
                                     clusters |-> clusterBySize(loc[s].arr, clusterSize)]]
    /\ pc' = [pc EXCEPT ![s] = "clusterBySize:returned"]
    /\ UNCHANGED <<in, res, mem, out, ticks, started>>

\* computeTalrAndSlope(klines).talr
ComputeTalrAndSlope(s) ==
    /\ pc[s] = "computeTalrAndSlope"
    /\ loc' = [loc EXCEPT ![s] = [talr |-> computeTalr(in[s].klines)]]
    /\ pc' = [pc EXCEPT ![s] = "computeRSI"]
    /\ UNCHANGED <<in, res, mem, out, ticks, started>>

\* computeRSI(klines, 14)
ComputeRSI(s) ==
    /\ pc[s] = "computeRSI"
    /\ loc' = [loc EXCEPT ![s] = [talr |-> loc[s].talr,
                                  rsi |-> computeRSI(in[s].klines, 14)]]
    /\ pc' = [pc EXCEPT ![s] = "computeRSI:returned"]
    /\ UNCHANGED <<in, res, mem, out, ticks, started>>

NextCalls ==
    \E s \in Symbols :
        \/ AggregatePriceUsd(s)
        \/ ClusterBySize(s)
        \/ ComputeTalrAndSlope(s)
        \/ ComputeRSI(s)

SpecCalls == InitCalls /\ [][NextCalls]_vars

\* aggregatePriceUsd has returned loc[s].arr for the entries in[s].levels
Aggregated(s) == pc[s] \in {"clusterBySize", "clusterBySize:returned"}

\* an entry with a finite, positive price and a finite, positive size
ValidEntry(e) == e.finite /\ e.price > 0 /\ e.size > 0

\* C24: aggregatePriceUsd returns one level per distinct price among the
\* valid entries, whose notional is the sum of price x size over the entries
\* at that price; every entry with a non-finite or non-positive price or size
\* is dropped, so every returned level has price > 0 and notional > 0.
C24_AggregateValid ==
    \A s \in Symbols :
        Aggregated(s) =>
            LET levels == in[s].levels
                arr == loc[s].arr
                valid == {i \in 1..Len(levels) : ValidEntry(levels[i])}
            IN  /\ {arr[j].price : j \in 1..Len(arr)} = {levels[i].price : i \in valid}
                /\ \A j, k \in 1..Len(arr) : arr[j].price = arr[k].price => j = k
                /\ \A j \in 1..Len(arr) :
                      /\ arr[j].usd =
                            SumSeq([i \in 1..Len(levels) |->
                                IF i \in valid /\ levels[i].price = arr[j].price
                                THEN levels[i].price * levels[i].size ELSE 0])
                      /\ arr[j].price > 0
                      /\ arr[j].usd > 0

\* clusterBySize has returned loc[s].clusters for loc[s].arr and loc[s].clusterSize
Clustered(s) == pc[s] = "clusterBySize:returned"

\* the level lies in the bucket: low <= price < high
InBucket(level, c) == RLe(c.low, R(level.price)) /\ RLt(R(level.price), c.high)

\* C25: clusterBySize with bucket width w puts each level in exactly one
\* bucket [low, high) with high - low = w and low <= price < high; the bucket
\* notionals sum to the total notional of the levels and the bucket counts to
\* the number of levels; no two buckets overlap; buckets are returned in
\* non-increasing notional order.
C25_ClusterConservation ==
    \A s \in Symbols :
        Clustered(s) =>
            LET arr == loc[s].arr
                w   == loc[s].clusterSize
                cl  == loc[s].clusters
                members(j) == {i \in 1..Len(arr) : InBucket(arr[i], cl[j])}
            IN  /\ \A j \in 1..Len(cl) : RSub(cl[j].high, cl[j].low) = w
                /\ \A i \in 1..Len(arr) :
                      Cardinality({j \in 1..Len(cl) : InBucket(arr[i], cl[j])}) = 1
                /\ \A j \in 1..Len(cl) :
                      /\ cl[j].count = Cardinality(members(j))
                      /\ cl[j].usd = SumSeq([i \in 1..Len(arr) |->
                                        IF i \in members(j) THEN arr[i].usd ELSE 0])
                /\ SumSeq([j \in 1..Len(cl) |-> cl[j].usd])
                       = SumSeq([i \in 1..Len(arr) |-> arr[i].usd])
                /\ SumSeq([j \in 1..Len(cl) |-> cl[j].count]) = Len(arr)
                /\ \A j, k \in 1..Len(cl) :
                      j # k => (RLe(cl[j].high, cl[k].low) \/ RLe(cl[k].high, cl[j].low))
                /\ \A j \in 1..Len(cl) - 1 : cl[j].usd >= cl[j + 1].usd

\* three levels of positive price in two buckets of width 5.5: the bucket
\* entered first holds one level, the bucket entered second holds two levels
\* and the larger notional, and is returned first
C25_Witness ==
    \E s \in Symbols :
        /\ Clustered(s)
        /\ loc[s].clusterSize = Frac(11, 2)
        /\ Len(loc[s].arr) = 3
        /\ \A i \in 1..3 : loc[s].arr[i].price > 0
        /\ Len(loc[s].clusters) = 2
        /\ loc[s].clusters[1].count = 2
        /\ InBucket(loc[s].arr[1], loc[s].clusters[2])
        /\ loc[s].clusters[1].usd > loc[s].clusters[2].usd

\* computeRSI has returned loc[s].rsi for the series in[s].klines
RsiReturned(s) == pc[s] = "computeRSI:returned"

\* the closes of the trailing 14 periods: the last 15 candles
TrailingCloses(klines) ==
    LET w == LastK(klines, 15) IN [i \in 1..Len(w) |-> w[i].close]

\* sum of the rises (dir = 1) or of the falls (dir = -1) between consecutive
\* closes
Moves(closes, dir) ==
    SumSeq([i \in 1..(Len(closes) - 1) |->
               Max(0, dir * (closes[i + 1] - closes[i]))])

\* C26: on a series of at least 15 bars computeRSI returns 50 when all closes
\* in the trailing 14 periods are equal, 100 when that window has at least one
\* gain and no loss, and otherwise a value in [0,100]; the result does not
\* depend on candles older than the trailing 14 periods.
C26_RsiWindow ==
    \A s \in Symbols :
        (RsiReturned(s) /\ Len(in[s].klines) >= 15) =>
            LET closes == TrailingCloses(in[s].klines)
                gain == Moves(closes, 1)
                loss == Moves(closes, -1)
                rsi  == loc[s].rsi
            IN  /\ ~rsi.isNull
                /\ (\A i \in 1..15 : closes[i] = closes[1]) => rsi.v = R(50)
                /\ (gain > 0 /\ loss = 0) => rsi.v = R(100)
                /\ RInRange(rsi.v)
                /\ loss > 0 => rsi.v = Frac(100 * gain, gain + loss)
                /\ rsi = computeRSI(LastK(in[s].klines, 15), 14)

\* a series with two older candles, the older candles falling by 10 and the
\* trailing window holding both gains and losses
C26_Witness ==
    \E s \in Symbols :
        /\ RsiReturned(s)
        /\ Len(in[s].klines) = 17
        /\ in[s].klines[1].close = 260 /\ in[s].klines[2].close = 250
        /\ Moves(TrailingCloses(in[s].klines), 1) > 0
        /\ Moves(TrailingCloses(in[s].klines), -1) > 0
        /\ loc[s].rsi.v \notin {R(0), R(50), R(100)}

(***************************************************************************)
(* TALR (lines 376-392)                                                    *)
(***************************************************************************)
\* the number of candles of the series that close lower than the candle
\* before them
ClosingLower(klines) ==
    Cardinality({i \in 2..Len(klines) : klines[i].close < klines[i - 1].close})

\* computeTalrAndSlope has returned loc[s].talr for the series in[s].klines
TalrReturned(s) == pc[s] \in {"computeRSI", "computeRSI:returned"}

\* C27: on a series of at least 10 bars talr is the rounded percentage of
\* candles closing lower than the previous one, taken against all steps of
\* the window (flat steps are part of the denominator); on a shorter series
\* it is the neutral 50.
C27_TalrAllSteps ==
    \A s \in Symbols :
        TalrReturned(s) =>
            LET klines == in[s].klines
            IN  loc[s].talr =
                    (IF Len(klines) < 10 THEN 50
                     ELSE Round(Frac(ClosingLower(klines) * 100, Len(klines) - 1)))

(***************************************************************************)
(* The two walks of the liquidation locator (lines 277-321)                *)
(***************************************************************************)
\* at least pct percent of sideTotal has accumulated up to the level at p
FundedTo(a, p, pct) == RLe(Frac(a.sideTotal * pct, 100), R(AccumTo(a, p)))

\* p is the first level of the side, walking away from the current price, at
\* which accumulated notional reaches 10% of sideTotal
FirstFunded(a, p) ==
    /\ OnSide(a, p)
    /\ FundedTo(a, p, 10)
    /\ \A i \in 1..Len(a.ladderAsc) :
          LET q == a.ladderAsc[i].price
          IN  (OnSide(a, q) /\ RLt(DistOf(a, q), DistOf(a, p))) => ~FundedTo(a, q, 10)

\* C28: whenever the 10% walk of findNearestLiquidationPriceSide returns
\* nothing the 50% walk returns nothing either, so every returned zone has
\* thresholdHit equal to 10% of sideTotal, and the function returns a zone
\* exactly when the first level at which accumulated notional reaches 10% of
\* sideTotal lies within atr x DIST_MULTIPLIER of the price.
C28_SecondWalkUnreachable ==
    \A s \in Symbols :
        LocatorReturned(s) =>
            LET a == in[s]
                z == loc[s].zone
            IN  /\ ~loc[s].low.found => ~loc[s].high.found
                /\ z.found => z.thresholdHit = Frac(a.sideTotal * 10, 100)
                /\ z.found <=>
                      \E i \in 1..Len(a.ladderAsc) :
                          /\ FirstFunded(a, a.ladderAsc[i].price)
                          /\ RLe(DistOf(a, a.ladderAsc[i].price),
                                 RMul(a.atr, R(DIST_MULTIPLIER)))

\* no zone although a level of the side is within reach and a farther level
\* holds 50% of a positive sideTotal: the first level to reach 10% is out of
\* reach
C28_Witness ==
    \E s \in Symbols :
        /\ LocatorReturned(s)
        /\ ~loc[s].zone.found
        /\ in[s].sideTotal > 0
        /\ \E i, j \in 1..Len(in[s].ladderAsc) :
              LET p == in[s].ladderAsc[i].price
                  q == in[s].ladderAsc[j].price
              IN  /\ OnSide(in[s], p)
                  /\ RLe(DistOf(in[s], p), RMul(in[s].atr, R(DIST_MULTIPLIER)))
                  /\ OnSide(in[s], q)
                  /\ FundedTo(in[s], q, 50)

(***************************************************************************)
(* BUY under active suppression (lines 717-748)                            *)
(***************************************************************************)
\* C29: on every tick where the suppression rule fires, BUY is emitted only
\* if the clamped pre-suppression buyScore is >= 68 and exceeds the
\* pre-suppression sellScore by more than 20; no tick with a pre-suppression
\* buyScore below 68 emits BUY while suppression fires.
C29_SuppressedBuyMargin ==
    \A s \in Symbols :
        (Returned(s) /\ Stressed(res[s], R(-1)) /\ res[s].signal = "BUY")
            => /\ res[s].pre.buyScore >= 68
               /\ res[s].pre.buyScore > res[s].pre.sellScore + 20

\* a tick on which the rule fired, took 8 points off the buyScore, and BUY was
\* emitted all the same
C29_Witness ==
    \E s \in Symbols :
        /\ Returned(s)
        /\ Stressed(res[s], R(-1))
        /\ SuppressionFires(loc[s].args)
        /\ res[s].signal = "BUY"
        /\ res[s].buyScore = res[s].pre.buyScore - 8

(***************************************************************************)
(* The module-level variables of lines 55-59 and computeConvictionAndSignal *)
(***************************************************************************)
\* the signal, conviction and scores of two results are equal
SameVerdict(x, y) ==
    /\ x.signal = y.signal
    /\ x.conviction = y.conviction
    /\ x.buyScore = y.buyScore
    /\ x.sellScore = y.sellScore

====
